---------------------------- MODULE Spec2Model ----------------------------
(***************************************************************************)
(* A model of the GitHub email scraper: the pattern extractors (the two    *)
(* regular expressions and their shared match position), the marketplace   *)
(* crawler of upwork-scraper.js, the code-host harvester and the two       *)
(* pipelines of index.js with their module-level email store, and the      *)
(* browser-based pipeline of puppeteer-scraper.js.                         *)
(*                                                                         *)
(* Texts are TLA+ strings; a character is a string of length 1.            *)
(***************************************************************************)
EXTENDS Integers, Sequences, FiniteSets, TLC

\* ------------------------------------------------------------------------
\* Characters and character classes of the two regular expressions

Ch(t, i) == SubSeq(t, i, i)

LowerSet ==
    {"a", "b", "c", "d", "e", "f", "g", "h", "i", "j", "k", "l", "m",
     "n", "o", "p", "q", "r", "s", "t", "u", "v", "w", "x", "y", "z"}
UpperSet ==
    {"A", "B", "C", "D", "E", "F", "G", "H", "I", "J", "K", "L", "M",
     "N", "O", "P", "Q", "R", "S", "T", "U", "V", "W", "X", "Y", "Z"}
DigitSet == {"0", "1", "2", "3", "4", "5", "6", "7", "8", "9"}
LetterSet == LowerSet \cup UpperSet

\* [a-zA-Z0-9_-]
UserChars == LetterSet \cup DigitSet \cup {"_", "-"}
\* [a-zA-Z0-9._%+-]
LocalChars == LetterSet \cup DigitSet \cup {".", "_", "%", "+", "-"}
\* [a-zA-Z0-9.-]
DomainChars == LetterSet \cup DigitSet \cup {".", "-"}

\* the literal matches text at position pos; with the i flag a letter of the
\* literal matches in either case (lo and up are the literal's two forms)
LitAtCI[text \in STRING, pos \in Int, lo \in STRING, up \in STRING] ==
    /\ pos >= 1
    /\ pos + Len(lo) - 1 <= Len(text)
    /\ \A k \in 1..Len(lo) :
          Ch(text, pos + k - 1) \in {Ch(lo, k), Ch(up, k)}

\* the position after the longest run of characters of class cls that starts
\* at position pos (pos itself when there is none): a greedy cls*
RunEnd[text \in STRING, pos \in Int, cls \in SUBSET STRING] ==
    IF pos >= 1 /\ pos <= Len(text) /\ Ch(text, pos) \in cls
    THEN RunEnd[text, pos + 1, cls]
    ELSE pos

\* the least and the greatest element of a non-empty set of positions
MinOf(S) == CHOOSE p \in S : \A q \in S : p <= q
MaxOf(S) == CHOOSE p \in S : \A q \in S : q <= p

\* ------------------------------------------------------------------------
\* githubUrlRegex = /https?:\/\/(?:www\.)?github\.com\/([a-zA-Z0-9_-]+)/gi
\* Positions are 1-based here; lastIndex keeps JavaScript's 0-based value.
\* A position 0 stands for "no match".

\* a literal that must match at pos: the position after it, or 0
AfterLit[text \in STRING, pos \in Int, lo \in STRING, up \in STRING] ==
    IF pos > 0 /\ LitAtCI[text, pos, lo, up] THEN pos + Len(lo) ELSE 0

\* an optional literal (x?) at pos: the position after it when it is there,
\* pos when it is not
AfterOpt[text \in STRING, pos \in Int, lo \in STRING, up \in STRING] ==
    IF pos > 0 /\ LitAtCI[text, pos, lo, up] THEN pos + Len(lo) ELSE pos

\* the position after "http", "s"?, "://", "www."?, "github.com/" matched at
\* pos, or 0 when that prefix does not match there
UrlPrefixEnd[text \in STRING, pos \in Int] ==
    AfterLit[text,
        AfterOpt[text,
            AfterLit[text,
                AfterOpt[text, AfterLit[text, pos, "http", "HTTP"], "s", "S"],
                "://", "://"],
            "www.", "WWW."],
        "github.com/", "GITHUB.COM/"]

\* the capture group ([a-zA-Z0-9_-]+) at position g, where the run of user
\* characters ends at e: the position after it, or 0 when the run is empty
GroupEnd[g \in Int, e \in Int] == IF g > 0 /\ e > g THEN e ELSE 0

\* the regex matches at pos: the position after the match, or 0
UrlMatchEnd[text \in STRING, pos \in Int] ==
    GroupEnd[UrlPrefixEnd[text, pos],
             RunEnd[text, UrlPrefixEnd[text, pos], UserChars]]

\* the positions of text at which the regex matches
UrlStarts[text \in STRING] == {p \in 1..Len(text) : UrlMatchEnd[text, p] # 0}

NoMatch == [found |-> FALSE, start |-> 0, end |-> 0, whole |-> "", group |-> ""]

\* the match that starts at position p, with its group from g to e
UrlMatchOf[text \in STRING, p \in Int, g \in Int, e \in Int] ==
    [match |-> [found |-> TRUE, start |-> p, end |-> e,
                whole |-> SubSeq(text, p, e - 1),
                group |-> SubSeq(text, g, e - 1)],
     lastIndex |-> e - 1]

\* the result of exec when the regex matches at the positions starts: the
\* engine tries the start positions from left to right, so the first one
\* wins; a match leaves lastIndex after it, a failure resets it to 0
UrlExecAmong[text \in STRING, starts \in SUBSET Int] ==
    IF starts = {} THEN [match |-> NoMatch, lastIndex |-> 0]
    ELSE UrlMatchOf[text, MinOf(starts), UrlPrefixEnd[text, MinOf(starts)],
                    RunEnd[text, UrlPrefixEnd[text, MinOf(starts)], UserChars]]

\* RegExp.prototype.exec of a global regex with lastIndex = li: the first
\* match that starts at li or later; lastIndex beyond the text fails
UrlExec[text \in STRING, li \in Int] ==
    UrlExecAmong[text, IF li > Len(text) THEN {}
                       ELSE {p \in UrlStarts[text] : p >= li + 1}]

Null == "<null>"

\* match && match[1] ? match[1] : null, with the match position exec left
ExtractOf(r) ==
    [result |-> IF r.match.found /\ r.match.group # "" THEN r.match.group
                ELSE Null,
     lastIndex |-> r.lastIndex]

\* the function without "githubUrlRegex.lastIndex = 0": exec goes on from the
\* match position the regex was left at
extractWithoutReset(url, li) ==
    IF url = Null \/ url = "" THEN [result |-> Null, lastIndex |-> li]
    ELSE ExtractOf(UrlExec[url, li])

\* extractGitHubUsername(url) with the shared regex at match position li:
\* the result and the match position it leaves behind.  Null is an absent
\* url (null, undefined); "if (!url) return null" leaves the regex alone;
\* otherwise lastIndex is set to 0 and exec is called once.
extractGitHubUsername(url, li) ==
    IF url = Null \/ url = "" THEN [result |-> Null, lastIndex |-> li]
    ELSE ExtractOf(UrlExec[url, 0])

\* ------------------------------------------------------------------------
\* emailRegex = /[a-zA-Z0-9._%+-]+@[a-zA-Z0-9.-]+\.[a-zA-Z]{2,}/g

\* the "." positions after the "@" at position at that can end the domain:
\* inside the greedy run of domain characters, after at least one domain
\* character, and followed by two or more letters
DomainDots[text \in STRING, at \in Int] ==
    {e \in (at + 2)..(RunEnd[text, at + 1, DomainChars] - 1) :
        /\ Ch(text, e) = "."
        /\ RunEnd[text, e + 1, LetterSet] >= e + 3}

\* the domain run is taken greedily and given back one character at a time
\* until "." and two or more letters follow, so the match ends with the last
\* such "." and the letters after it; the position after the match, or 0
LastDotEnd[text \in STRING, dots \in SUBSET Int] ==
    IF dots = {} THEN 0 ELSE RunEnd[text, MaxOf(dots) + 1, LetterSet]

\* the local part started at pos runs up to at: "@" must stand there
AfterLocal[text \in STRING, pos \in Int, at \in Int] ==
    IF at = pos \/ at > Len(text) \/ Ch(text, at) # "@" THEN 0
    ELSE LastDotEnd[text, DomainDots[text, at]]

\* the regex matches at pos: the position after the match, or 0
EmailMatchEnd[text \in STRING, pos \in Int] ==
    AfterLocal[text, pos, RunEnd[text, pos, LocalChars]]

\* the matches that start at position pos or later, left to right, each
\* search starting where the previous match ended
EmailMatchesFrom[text \in STRING, pos \in Int] ==
    LET Upto(p, e) == <<SubSeq(text, p, e - 1)>> \o EmailMatchesFrom[text, e]
        Among(starts) ==
            IF starts = {} THEN <<>>
            ELSE Upto(MinOf(starts), EmailMatchEnd[text, MinOf(starts)])
    IN Among({p \in pos..Len(text) : EmailMatchEnd[text, p] # 0})

\* text.match(emailRegex) || []
extractEmails(text) == EmailMatchesFrom[text, 1]

\* String.prototype.includes
Includes(text, sub) ==
    \E p \in 1..(Len(text) - Len(sub) + 1) :
        SubSeq(text, p, p + Len(sub) - 1) = sub

NoReplyDomain == "noreply.github.com"

\* ------------------------------------------------------------------------
\* JavaScript's Set, kept as the sequence of its elements in insertion order
\* (the order Array.from and forEach give)

Range(s) == {s[i] : i \in 1..Len(s)}

\* an array's push: the element is appended whether present or not
PushAlways(s, e) == Append(s, e)

\* Set.prototype.add: an element already present is not added again
SetAdd(s, e) == IF e \in Range(s) THEN s ELSE Append(s, e)

\* es.forEach(e => s.add(e))
SetAddAll(s, es) ==
    LET f[i \in 0..Len(es)] ==
            IF i = 0 THEN s
            ELSE CHOOSE r \in {SetAdd(prev, es[i]) : prev \in {f[i - 1]}} :
                     TRUE
    IN f[Len(es)]

\* ------------------------------------------------------------------------
\* Marketplace profile pages (the environment of upwork-scraper.js).  A page
\* is the text of its three regions and its anchors in document order; an
\* anchor carries its href, its own classes and the classes of its ancestors.

Anchor(href, own, anc) == [href |-> href, own |-> own, anc |-> anc]

MockOverview ==
    "\n            I'm a full-stack developer with experience in React, Node.js, and more.\n            Check out my GitHub: https://github.com/mockuser\n          "
MockPortfolio ==
    "\n            \n              Project 1\n            \n          "

Profiles ==
    [ mock |->
        [overview |-> MockOverview, portfolio |-> MockPortfolio,
         experience |-> "",
         anchors |-> <<
            Anchor("https://github.com/mockuser/project1", {},
                   {"portfolio-section", "portfolio-item"}),
            Anchor("https://linkedin.com/in/mockuser", {"social-link"},
                   {"social-links"}),
            Anchor("https://github.com/mockuser2", {"social-link"},
                   {"social-links"}) >>],
      lead |->
        [overview |-> "https://github.com/alice is my GitHub",
         portfolio |-> "", experience |-> "", anchors |-> <<>>],
      links |->
        [overview |-> "Full-stack developer", portfolio |-> "Shop",
         experience |-> "",
         anchors |-> <<
            Anchor("https://github.com/bob/shop", {}, {"portfolio-item"}),
            Anchor(Null, {}, {"external-link"}),
            Anchor("https://github.com/alice", {}, {"footer"}) >>],
      prose |->
        [overview |-> "Ten years of Node.js and React",
         portfolio |-> "", experience |-> "My code: http://www.github.com/bob/",
         anchors |-> <<>>],
      plain |->
        [overview |-> "No code host account", portfolio |-> "",
         experience |-> "",
         anchors |-> <<Anchor("https://linkedin.com/in/carol", {},
                              {"social-link"})>>] ]

ProfileNames == DOMAIN Profiles

\* ------------------------------------------------------------------------
\* scrapeUpworkProfile: the scan of the profile text and of the anchors, with
\* the module-level regex shared with extractGitHubUsername

\* `${profileText} ${portfolioText} ${experienceText}`
fullText(p) == p.overview \o " " \o p.portfolio \o " " \o p.experience

\* usernames.add(username) when extractGitHubUsername gave one
AddUsername(acc, x) == IF x.result # Null THEN SetAdd(acc, x.result) ELSE acc

\* the while loop over githubUrlRegex.exec(fullText) with the regex at match
\* position li, acc the usernames so far, heads the match positions the loop
\* head has been at, visited the starts of the matches the loop body has
\* been run for.  The loop body calls extractGitHubUsername, which moves
\* the same regex's match position; a loop head that comes back to a match
\* position it has been at never leaves the loop (hung).
TextScan[text \in STRING, li \in Nat, acc \in Seq(STRING), heads \in SUBSET Nat, visited \in Seq(Nat)] ==
    LET LoopBody(x, start) ==
            TextScan[text, x.lastIndex, AddUsername(acc, x), heads \cup {li},
                     Append(visited, start)]
        LoopHead(r) ==
            IF ~r.match.found
            THEN [hung |-> FALSE, usernames |-> acc, lastIndex |-> r.lastIndex,
                  visited |-> visited]
            ELSE LoopBody(extractGitHubUsername(r.match.whole, r.lastIndex),
                          r.match.start)
    IN IF li \in heads
       THEN [hung |-> TRUE, usernames |-> acc, lastIndex |-> li,
             visited |-> visited]
       ELSE LoopHead(UrlExec[text, li])

\* $('.portfolio-item a, .social-link a, .external-link a'): an anchor below
\* an element of one of the three classes
LinkRegions == {"portfolio-item", "social-link", "external-link"}

Selected(a) == a.anc \cap LinkRegions # {}

Anchors == [href : STRING, own : SUBSET STRING, anc : SUBSET STRING]

\* the .each() over the selected anchors from the i-th anchor on, with the
\* regex at match position li and the usernames acc found so far
AnchorScan[anchors \in Seq(Anchors), i \in Nat, li \in Nat, acc \in Seq(STRING)] ==
    LET LoopBody(x) == AnchorScan[anchors, i + 1, x.lastIndex, AddUsername(acc, x)]
    IN IF i > Len(anchors)
       THEN [hung |-> FALSE, usernames |-> acc, lastIndex |-> li]
       ELSE IF ~Selected(anchors[i])
            THEN AnchorScan[anchors, i + 1, li, acc]
            ELSE LoopBody(extractGitHubUsername(anchors[i].href, li))

\* the anchors are scanned after the text scan t has come to its end
AfterText(p, t) ==
    IF t.hung THEN t
    ELSE [visited |-> t.visited]
         @@ AnchorScan[p.anchors, 1, t.lastIndex, t.usernames]

\* the body of scrapeUpworkProfile after the page has been fetched, entered
\* with the regex at match position li
scrapeUpworkProfile(p, li) ==
    AfterText(p, TextScan[fullText(p), li, <<>>, {}, <<>>])

\* The match positions the shared regex can be left at between two profile
\* visits: 0, or the end of a match in a string handed to
\* extractGitHubUsername (an anchor's href, a URL matched in a profile text)
ScannedUrls ==
    UNION {{Profiles[n].anchors[i].href : i \in 1..Len(Profiles[n].anchors)}
           \cup {UrlExec[fullText(Profiles[n]), q - 1].match.whole :
                    q \in UrlStarts[fullText(Profiles[n])]}
           : n \in ProfileNames}

MatchPositions ==
    {0} \cup {extractGitHubUsername(u, 0).lastIndex : u \in ScannedUrls}

\* scrapeUpworkProfile for every profile page and match position, computed
\* once
ScrapeResult ==
    [n \in ProfileNames, li \in MatchPositions |->
        scrapeUpworkProfile(Profiles[n], li)]

\* ------------------------------------------------------------------------
\* Bounds of the model

\* search-result pages of the marketplace that can show profile links
MaxSitePages == 3
\* profile links on one search page
MaxLinks == 2
\* largest page ceiling a caller passes (0 is "no ceiling")
MaxCeiling == 2
\* calls of findGitHubAccountsFromUpwork in one process
MaxCrawls == 1
\* runs of a pipeline of index.js in one process
MaxRuns == 2
\* largest page ceiling findEmailsFromUpworkDevelopers is called with
MaxHarvestCeiling == 1
\* search-result pages of the code host that show repositories (besides
\* the host that shows PageCap of them)
MaxResultPages == 1
\* repositories on one search-result page
MaxRepos == 1
\* contributors listed for a repository
MaxContributors == 1
\* commits listed for a repository
MaxCommits == 1
\* commits listed for a repository when the repository search runs alone
MaxListedCommits == 2
\* public events listed for a user
MaxEvents == 1
\* repositories listed for a user
MaxUserRepos == 1
\* calls of emailSet.add and of saveEmails by the store's direct user
MaxAdds == 3
MaxSaves == 2
MaxBrowserPages == 2
MaxTiles == 1
MaxListedRepos == 1
MaxCalls == 2
MaxMarketPages == 3
\* runs of a process in which the code host answers 403 to a request other
\* than the search
MaxLimitedRuns == 1
MaxSampleCalls == 1

\* addresses a second call gives to emailSet.add
MaxSecondAdds == 1
\* Math.random() returns one of the numbers n / RandomGrain, 0 <= n <
\* RandomGrain
RandomGrain == 12000

\* ------------------------------------------------------------------------
\* State

VARIABLES
    \* upwork-scraper.js
    lastIndex,      \* githubUrlRegex.lastIndex, module level
    cookies,        \* whether upwork-cookies.json can be required
    cPc,            \* where findGitHubAccountsFromUpwork is
    cMax,           \* its maxPages argument
    cPage,          \* its page counter
    allUsernames,   \* its Set allUsernames
    pageUsernames,  \* githubUsernames of the searchUpworkProfiles call
    links,          \* profile links of the page still to be visited
    cResult,        \* the array the crawl returned
    crawls,         \* calls of the crawl through the module's export
    \* what the crawl did, for the properties
    searched,       \* the page numbers searchUpworkProfiles was called with
    linksSeen,      \* per searched page, the profile links it showed, or
                    \* RequestFailed, or NoRequest
    namesSeen,      \* per searched page, the usernames its search returned
    lastVisit,      \* the last profile visit: the page and what the scan gave
    \* index.js
    emailSet,       \* the Set emailSet, in insertion order
    files,          \* the output files on disk
    stack,          \* the pending calls and loops of the running pipeline
    mode,           \* the pipeline that runs or ran last
    stage,          \* where the pipeline is: idle, crawl, run, ended
    runs,           \* pipeline runs started in this process
    hostPages,      \* search-result pages of the code host with repositories
    argv,           \* the argument index.js was run with (Null: it was required)
    runResult,      \* the array the run's entry point returned
    \* what the run did, for the properties
    added,          \* the addresses given to emailSet.add in this run
    adds,           \* calls of emailSet.add by the store's direct user
    searchErr,      \* error.status of the search request that failed
    denied,         \* the step just taken was a request to the code host
                    \* that was answered 403
    writes,         \* calls of saveEmails in this run
    requests,       \* the search requests of this run, each with its answer
    \* puppeteer-scraper.js
    bPc,            \* where main is: start, page, profiles, github, repos, done
    bMaxPages,      \* main's maxPages argument
    currentPage,    \* the page counter of scrapeUpworkProfiles
    profileLinks,   \* profile links of the search page still to be visited
    githubUrls,     \* the Set githubUrls of scrapeUpworkProfiles
    urlQueue,       \* the part of main's githubUrls array not yet iterated
    emailData,      \* the module-level array emailData
    processedGithubUrls,  \* the module-level Set of that name
    profileEmails,  \* profileEmails of the running scrapeGitHubProfile
    repoLinks,      \* its repoLinks still to be visited
    repoEmails,     \* its repoEmails
    browserFile,    \* fullstack-developer-emails.json as main wrote it
    \* what the browser run did, for the properties
    foundRecords,   \* the records scrapeGitHubProfile returned, in order
    marketPages,    \* search-result pages of the marketplace with profiles
    location,       \* the document the marketplace tab of the browser shows
    tilesSeen,      \* per pass of the page loop, where the profile links
                    \* were read and how many there were
    bThrown,        \* a step of scrapeUpworkProfiles has thrown
    \* a caller of extractGitHubUsername
    argument,       \* the URL of the last call, with its parts
    returned,       \* what the last call returned
    entered,        \* githubUrlRegex.lastIndex when the last call was made
    calls,          \* calls made
    \* a caller of the email extraction
    sample,         \* the text of the last call, with the emails put in it
    matches,        \* the array the last call returned
    sampleCalls,    \* calls made
    \* a second call into index.js made while a run is in progress
    second,         \* the entry point called, or none, or that it returned
    secondAdded,    \* the addresses that call gave to emailSet.add
    \* the pause before a request to the marketplace
    timer           \* whose pause it is, the delay drawn and how far it got

crawlVars == <<lastIndex, cookies, cPc, cMax, cPage, allUsernames,
               pageUsernames, links, cResult, crawls>>
crawlLog == <<searched, linksSeen, namesSeen, lastVisit>>

pipeVars == <<emailSet, files, stack, mode, stage, runResult, runs, hostPages, argv,
              runResult>>
pipeLog == <<added, adds, searchErr, writes, requests, denied>>
browserVars == <<bPc, bMaxPages, currentPage, profileLinks, githubUrls,
                 urlQueue, emailData, processedGithubUrls, profileEmails,
                 repoLinks, repoEmails, browserFile, foundRecords,
                 marketPages, location, tilesSeen, bThrown>>
extractVars == <<argument, returned, entered, calls>>
emailVars == <<sample, matches, sampleCalls>>
overlapVars == <<second, secondAdded>>
delayVars == <<timer>>
vars == <<crawlVars, crawlLog, pipeVars, pipeLog, browserVars, extractVars,
          emailVars, overlapVars, delayVars>>

\* what the functions of index.js leave alone
otherVars == <<browserVars, extractVars, emailVars, overlapVars, delayVars,
               argv>>

\* a search whose page request failed, and a search that threw before it made
\* the request (the cookie file could not be required)
RequestFailed == -1
NoRequest == -2

NoVisit ==
    [profile |-> Null, entered |-> 0, hung |-> FALSE, usernames |-> <<>>,
     visited |-> <<>>]

\* ------------------------------------------------------------------------
\* findGitHubAccountsFromUpwork (upwork-scraper.js)

\* the call: allUsernames = new Set(), page = 1, continueSearch = true
BeginCrawl(maxPages) ==
    /\ cPc' = "loop"
    /\ cMax' = maxPages
    /\ cPage' = 1
    /\ allUsernames' = <<>>
    /\ pageUsernames' = <<>>
    /\ links' = 0
    /\ cResult' = <<>>
    /\ searched' = <<>>
    /\ linksSeen' = <<>>
    /\ namesSeen' = <<>>
    /\ lastVisit' = NoVisit
    /\ UNCHANGED <<lastIndex, cookies>>

\* the head of the while loop: the ceiling check, then the call of
\* searchUpworkProfiles(page)
CrawlLoop ==
    /\ cPc = "loop"
    /\ IF cMax > 0 /\ cPage > cMax
       THEN /\ cPc' = "return"
            /\ UNCHANGED searched
       ELSE /\ cPc' = "search"
            /\ searched' = Append(searched, cPage)
    /\ UNCHANGED <<lastIndex, cookies, cMax, cPage, allUsernames,
                   pageUsernames, links, cResult, crawls, linksSeen,
                   namesSeen, lastVisit>>

\* a crawl that goes on to the next page whatever the search returned
AfterSearchNoStop(names) ==
    /\ namesSeen' = Append(namesSeen, names)
    /\ cPc' = "loop"
    /\ allUsernames' = SetAddAll(allUsernames, names)
    /\ cPage' = cPage + 1

\* what findGitHubAccountsFromUpwork does with the array names that
\* searchUpworkProfiles(page) returned: stop on an empty array, else add the
\* names to the set and go to the next page
AfterSearch(names) ==
    /\ namesSeen' = Append(namesSeen, names)
    /\ IF Len(names) = 0
       THEN /\ cPc' = "return"
            /\ UNCHANGED <<cPage, allUsernames>>
       ELSE /\ cPc' = "loop"
            /\ allUsernames' = SetAddAll(allUsernames, names)
            /\ cPage' = cPage + 1

\* searchUpworkProfiles up to the parsed search page: the cookie file is
\* required, the page is fetched, the profile links are collected.  A throw
\* (no cookie file, a failed request) is caught and [] is returned.
SearchPage ==
    /\ cPc = "search"
    /\ \E outcome \in {"ok", "failed"},
          n \in 0..(IF cPage <= MaxSitePages THEN MaxLinks ELSE 0) :
         IF ~cookies \/ outcome = "failed"
         THEN /\ n = 0
              /\ linksSeen' = Append(linksSeen, IF cookies THEN RequestFailed
                                                 ELSE NoRequest)
              /\ AfterSearch(<<>>)
              /\ UNCHANGED <<pageUsernames, links>>
         ELSE /\ linksSeen' = Append(linksSeen, n)
              /\ IF n = 0
                 THEN /\ AfterSearch(<<>>)
                      /\ UNCHANGED <<pageUsernames, links>>
                 ELSE /\ cPc' = "profiles"
                      /\ links' = n
                      /\ pageUsernames' = <<>>
                      /\ UNCHANGED <<cPage, allUsernames, namesSeen>>
    /\ UNCHANGED <<lastIndex, cookies, cMax, cResult, crawls, searched,
                   lastVisit>>

\* one pass of the loop over profileLinks: scrapeUpworkProfile fetches the
\* profile (a failure is caught and gives []) and scans it; its names are
\* pushed onto githubUsernames.  After the last link the page's array is
\* returned to the crawl.
VisitProfile ==
    /\ cPc = "profiles"
    /\ links > 0
    /\ \E outcome \in {"failed"} \cup ProfileNames :
         LET r == IF outcome = "failed"
                  THEN [hung |-> FALSE, usernames |-> <<>>,
                        lastIndex |-> lastIndex, visited |-> <<>>]
                  ELSE ScrapeResult[outcome, lastIndex]
             names == pageUsernames \o r.usernames
         IN /\ lastVisit' = [profile |-> outcome, entered |-> lastIndex,
                             hung |-> r.hung, visited |-> r.visited,
                             usernames |-> r.usernames]
            /\ lastIndex' = r.lastIndex
            /\ IF r.hung
               THEN /\ cPc' = "hung"
                    /\ UNCHANGED <<pageUsernames, links, cPage, allUsernames,
                                   namesSeen>>
               ELSE /\ pageUsernames' = names
                    /\ links' = links - 1
                    /\ IF links = 1
                       THEN AfterSearch(names)
                       ELSE UNCHANGED <<cPc, cPage, allUsernames, namesSeen>>
    /\ UNCHANGED <<cookies, cMax, cResult, crawls, searched, linksSeen>>

\* return Array.from(allUsernames)
CrawlReturn ==
    /\ cPc = "return"
    /\ cPc' = "done"
    /\ cResult' = allUsernames
    /\ UNCHANGED <<lastIndex, cookies, cMax, cPage, allUsernames,
                   pageUsernames, links, crawls>>
    /\ UNCHANGED crawlLog

\* ------------------------------------------------------------------------
\* index.js: the code host's answers (the environment of the harvester)

NoReplyEmail == "12345+octocat@users.noreply.github.com"

\* the email addresses the code host's answers can carry
EmailPool == {"dev@example.com", "Dev@example.com", NoReplyEmail}

\* an email field of an answer: an address, or absent
EmailFields == EmailPool \cup {Null}

\* the author and committer email of a commit record
CommitEmails ==
    {<<"dev@example.com", NoReplyEmail>>, <<NoReplyEmail, "Dev@example.com">>,
     <<"Dev@example.com", "dev@example.com">>, <<Null, Null>>}

\* the author email of the first commit of a push event (absent as well
\* for an event of another type)
EventEmails == {"dev@example.com", NoReplyEmail, Null}

\* README contents
ReadmeTexts ==
    {"Contact dev@example.com or Dev@example.com.",
     "Commits by 12345+octocat@users.noreply.github.com, mail dev@example.com",
     "No contact here"}

\* content.match(emailRegex) || [] for every README, computed once
ReadmeEmails == [t \in ReadmeTexts |-> extractEmails(t)]

\* error.status of a failed search request: rate limit, bad credentials,
\* server error
SearchErrors == {403, 401, 500}

\* the page limit of searchJavaScriptRepos ("page < 100")
PageCap == 100

\* sequences over S of length at most n
SeqUpTo(S, n) == UNION {[1..k -> S] : k \in 0..n}

\* email && !email.includes('noreply.github.com'), for each of es
Filtered(es) ==
    SelectSeq(es, LAMBDA e : e # Null /\ ~Includes(e, NoReplyDomain))

\* if (user.email): the field is there
Present(es) == SelectSeq(es, LAMBDA e : e # Null)

\* a store that keeps its elements
NotCleared(s) == s

\* emailSet.clear()
Cleared(s) == <<>>

\* Array.from(emailSet) written by fs.writeFileSync
NoFile == [exists |-> FALSE, data |-> <<>>]
Written(s) == [exists |-> TRUE, data |-> s]

JsFile == "javascript-developer-emails.json"
UpworkFile == "fullstack-developer-emails.json"

\* a frame of the pending work: a call that has not made its request yet,
\* or a loop with left passes to go
Frame(op, left, size, page, names) ==
    [op |-> op, left |-> left, size |-> size, page |-> page, names |-> names]
Call(op) == Frame(op, 0, 0, 0, <<>>)
Loop(op, left) == Frame(op, left, left, 0, <<>>)

\* processRepository(owner, repo): README, contributors, commits
RepositoryCalls == <<Call("readme"), Call("contributors"), Call("commits")>>

\* a loop frame after one pass; a loop without passes left is over
Passed(f) == IF f.left > 1 THEN <<[f EXCEPT !.left = f.left - 1]>> ELSE <<>>

\* a code host whose search shows PageCap pages of repositories; its
\* repositories have no README, contributors or commits
DeepHost == hostPages >= PageCap

\* ------------------------------------------------------------------------
\* index.js: the store and the output files

\* emailSet.add(e) for each e of es, in order
AddEmails(es) ==
    /\ emailSet' = SetAddAll(emailSet, es)
    /\ added' = added \cup Range(es)

\* a run that has not returned
NoResult == <<>>

\* saveEmails(filename)
saveEmails(filename) ==
    /\ files' = [files EXCEPT ![filename] = Written(emailSet)]
    /\ writes' = writes + 1

NoSave == UNCHANGED <<files, writes>>
NoEmails == UNCHANGED <<emailSet, added>>

\* the start of a run: the store is emptied
BeginRun(m) ==
    /\ stage \in {"idle", "ended"}
    /\ runs < MaxRuns
    /\ runs' = runs + 1
    /\ mode' = m
    /\ emailSet' = Cleared(emailSet)
    /\ added' = {}
    /\ writes' = 0
    /\ searchErr' = 0
    /\ requests' = <<>>
    /\ denied' = FALSE
    /\ runResult' = NoResult
    /\ UNCHANGED <<files, hostPages, adds>>

\* searchJavaScriptDevelopers(): clear, then searchJavaScriptRepos()
searchJavaScriptDevelopers ==
    /\ BeginRun("js")
    /\ stage' = "run"
    /\ stack' = <<Frame("search", 0, 0, 1, <<>>)>>
    /\ UNCHANGED <<crawlVars, crawlLog>>

\* findEmailsFromUpworkDevelopers(maxPages): clear, then the crawl
findEmailsFromUpworkDevelopers ==
    /\ BeginRun("upwork")
    /\ stage' = "crawl"
    /\ stack' = <<>>
    /\ cPc \in {"idle", "done"}
    /\ UNCHANGED crawls
    /\ \E maxPages \in 1..MaxHarvestCeiling : BeginCrawl(maxPages)

\* "const { mode = 'javascript', maxPages = 0 } = options" for main()
DefaultOptions == [mode |-> "javascript", maxPages |-> 0]

\* main(options) of index.js
indexMain(options) ==
    IF options.mode = "upwork" THEN findEmailsFromUpworkDevelopers
    ELSE searchJavaScriptDevelopers

\* what "node index.js" can be followed by
ScriptArguments == {"", "--mode=upwork"}

\* index.js run directly (require.main === module): main() is called without
\* options, whatever the command line holds
RunDirectly ==
    /\ argv # Null
    /\ runs = 0
    /\ indexMain(DefaultOptions)

\* whether a request below the search can be answered 403: the code host
\* does so in the first MaxLimitedRuns runs of the process
Forbidden == IF runs <= MaxLimitedRuns THEN BOOLEAN ELSE {FALSE}

\* the step is a request to the code host, answered with error.status 403
\* (forbidden) or otherwise
Asked(forbidden) == denied' = forbidden

\* octokit.search.repos({ q, sort, order, per_page: 100, page }) with the
\* kind of answer it got for items repositories returned (NoAnswer: the
\* request failed)
NoAnswer == -1
SearchRequest(page, items) ==
    [q |-> "Full-stack", sort |-> "stars", order |-> "desc", per_page |-> 100,
     page |-> page,
     answer |-> CASE items = NoAnswer -> "error"
                  [] items = 0 -> "empty"
                  [] OTHER -> "items"]

\* a search that saves when it is answered 403 and then asks for the next
\* page all the same
SearchReposSavesAndGoesOn ==
    /\ stage = "run"
    /\ stack # <<>>
    /\ Head(stack).op = "search"
    /\ \/ \E status \in SearchErrors :
            /\ searchErr' = status
            /\ requests' = Append(requests,
                                  SearchRequest(Head(stack).page, NoAnswer))
            /\ Asked(status = 403)
            /\ IF status = 403 THEN saveEmails(JsFile) ELSE NoSave
            /\ IF status = 403 /\ writes = 0
               THEN /\ stack' = <<Frame("search", 0, 0, Head(stack).page + 1,
                                        <<>>)>> \o Tail(stack)
                    /\ UNCHANGED <<stage, runResult>>
               ELSE /\ stack' = Tail(stack)
                    /\ stage' = "ended"
                    /\ runResult' = emailSet
       \/ \E n \in (IF Head(stack).page <= hostPages
                    THEN (IF DeepHost THEN {1} ELSE 1..MaxRepos)
                    ELSE {0}) :
            /\ stack' = <<Frame("repos", n, n, Head(stack).page, <<>>)>>
                        \o Tail(stack)
            /\ requests' = Append(requests,
                                  SearchRequest(Head(stack).page, n))
            /\ Asked(FALSE)
            /\ NoSave
            /\ UNCHANGED <<stage, runResult, searchErr>>
    /\ NoEmails
    /\ UNCHANGED <<mode, runs, hostPages, adds, crawlVars, crawlLog>>

\* searchJavaScriptRepos(page): the search request and what follows it
SearchRepos ==
    /\ stage = "run"
    /\ stack # <<>>
    /\ Head(stack).op = "search"
    /\ \/ \E status \in SearchErrors :
            /\ searchErr' = status
            /\ requests' = Append(requests,
                                  SearchRequest(Head(stack).page, NoAnswer))
            /\ Asked(status = 403)
            /\ IF status = 403 THEN saveEmails(JsFile) ELSE NoSave
            /\ stack' = Tail(stack)
            /\ stage' = "ended"
            /\ runResult' = emailSet
       \/ \E n \in (IF Head(stack).page <= hostPages
                    THEN (IF DeepHost THEN {1} ELSE 1..MaxRepos)
                    ELSE {0}) :
            /\ stack' = <<Frame("repos", n, n, Head(stack).page, <<>>)>>
                        \o Tail(stack)
            /\ requests' = Append(requests,
                                  SearchRequest(Head(stack).page, n))
            /\ Asked(FALSE)
            /\ NoSave
            /\ UNCHANGED <<stage, runResult, searchErr>>
    /\ NoEmails
    /\ UNCHANGED <<mode, runs, hostPages, adds, crawlVars, crawlLog>>

\* one pass of "for (const repo of response.data.items)"
RepoLoop ==
    /\ stage = "run"
    /\ stack # <<>>
    /\ Head(stack).op = "repos"
    /\ Head(stack).left > 0
    /\ stack' = RepositoryCalls
                \o <<[Head(stack) EXCEPT !.left = Head(stack).left - 1]>>
                \o Tail(stack)
    /\ NoEmails
    /\ NoSave
    /\ denied' = FALSE
    /\ UNCHANGED <<mode, stage, runResult, runs, hostPages, adds, searchErr, requests,
                   crawlVars, crawlLog>>

\* the end of a page that asks for the next page even after a page without
\* repositories
PageEndNoStop ==
    /\ stage = "run"
    /\ stack # <<>>
    /\ Head(stack).op = "repos"
    /\ Head(stack).left = 0
    /\ IF Head(stack).page < PageCap
       THEN /\ stack' = <<Frame("search", 0, 0, Head(stack).page + 1, <<>>)>>
                        \o Tail(stack)
            /\ NoSave
            /\ UNCHANGED <<stage, runResult>>
       ELSE /\ saveEmails(JsFile)
            /\ stack' = Tail(stack)
            /\ stage' = "ended"
            /\ runResult' = emailSet
    /\ NoEmails
    /\ denied' = FALSE
    /\ UNCHANGED <<mode, runs, hostPages, adds, searchErr, requests,
                   crawlVars, crawlLog>>

\* after the loop: the next page, or saveEmails()
PageEnd ==
    /\ stage = "run"
    /\ stack # <<>>
    /\ Head(stack).op = "repos"
    /\ Head(stack).left = 0
    /\ IF Head(stack).size > 0 /\ Head(stack).page < PageCap
       THEN /\ stack' = <<Frame("search", 0, 0, Head(stack).page + 1, <<>>)>>
                        \o Tail(stack)
            /\ NoSave
            /\ UNCHANGED <<stage, runResult>>
       ELSE /\ saveEmails(JsFile)
            /\ stack' = Tail(stack)
            /\ stage' = "ended"
            /\ runResult' = emailSet
    /\ NoEmails
    /\ denied' = FALSE
    /\ UNCHANGED <<mode, runs, hostPages, adds, searchErr, requests,
                   crawlVars, crawlLog>>

\* what the harvester's steps leave alone
HarvestFrame ==
    /\ stage = "run"
    /\ stack # <<>>
    /\ NoSave
    /\ UNCHANGED <<mode, stage, runResult, runs, hostPages, adds, searchErr, requests,
                   crawlVars, crawlLog>>

\* checkReadmeForEmails: every match of emailRegex in the README is added;
\* a failed request adds nothing
checkReadmeForEmails ==
    /\ HarvestFrame
    /\ Head(stack).op = "readme"
    /\ stack' = Tail(stack)
    /\ \/ /\ NoEmails
          /\ \E forbidden \in Forbidden : Asked(forbidden)
       \/ /\ ~DeepHost
          /\ \E text \in ReadmeTexts :
                /\ AddEmails(ReadmeEmails[text])
          /\ Asked(FALSE)

\* getContributors: the list request; a failure or an empty list ends it
getContributors ==
    /\ HarvestFrame
    /\ Head(stack).op = "contributors"
    /\ NoEmails
    /\ \E n \in 0..(IF DeepHost THEN 0 ELSE MaxContributors),
          forbidden \in Forbidden :
          /\ forbidden => n = 0
          /\ Asked(forbidden)
          /\ stack' = (IF n = 0 THEN <<>> ELSE <<Loop("contributor", n)>>)
                      \o Tail(stack)

\* one pass of "for (const contributor of contributors)"
ContributorLoop ==
    /\ HarvestFrame
    /\ Head(stack).op = "contributor"
    /\ denied' = FALSE
    /\ NoEmails
    /\ stack' = <<Call("user")>> \o Passed(Head(stack)) \o Tail(stack)

\* getContributorEmails: the profile request; the public email is added as
\* it is, then getUserEvents is called; a failed request skips both
getContributorEmails ==
    /\ HarvestFrame
    /\ Head(stack).op = "user"
    /\ \/ /\ stack' = Tail(stack)
          /\ NoEmails
          /\ \E forbidden \in Forbidden : Asked(forbidden)
       \/ \E email \in EmailFields :
            /\ AddEmails(Present(<<email>>))
            /\ stack' = <<Call("events")>> \o Tail(stack)
            /\ Asked(FALSE)

\* getUserEvents: the author email of the first commit of every PushEvent,
\* unless it is a no-reply address
getUserEvents ==
    /\ HarvestFrame
    /\ Head(stack).op = "events"
    /\ stack' = Tail(stack)
    /\ \/ /\ NoEmails
          /\ \E forbidden \in Forbidden : Asked(forbidden)
       \/ \E emails \in SeqUpTo(EventEmails, MaxEvents) :
            /\ emails # <<>>
            /\ AddEmails(Filtered(emails))
            /\ Asked(FALSE)

\* checkCommits on a code host that lists at most limit commits for a
\* repository: the list request; a failure or an empty list ends it
ListCommits(limit) ==
    /\ HarvestFrame
    /\ Head(stack).op = "commits"
    /\ NoEmails
    /\ \E n \in 0..(IF DeepHost THEN 0 ELSE limit),
          forbidden \in Forbidden :
          /\ forbidden => n = 0
          /\ Asked(forbidden)
          /\ stack' = (IF n = 0 THEN <<>> ELSE <<Loop("commit", n)>>)
                      \o Tail(stack)

checkCommits == ListCommits(MaxCommits)

\* one pass of "for (const commit of commits)": the commit request, then the
\* author's and the committer's email unless no-reply; a failed request
\* leaves the loop
CommitLoop ==
    /\ HarvestFrame
    /\ Head(stack).op = "commit"
    /\ \/ /\ stack' = Tail(stack)
          /\ NoEmails
          /\ \E forbidden \in Forbidden : Asked(forbidden)
       \/ \E emails \in CommitEmails :
            /\ AddEmails(Filtered(emails))
            /\ stack' = Passed(Head(stack)) \o Tail(stack)
            /\ Asked(FALSE)

\* "for (const username of githubUsernames)" with successCount = 0: left
\* is successCount, size is githubUsernames.length
UsernameLoop(githubUsernames) ==
    Frame("usernames", 0, Len(githubUsernames), 0, githubUsernames)

\* the crawl has returned its usernames to findEmailsFromUpworkDevelopers;
\* its locals are gone
HarvestUsernames ==
    /\ stage = "crawl"
    /\ cPc = "done"
    /\ stage' = "run"
    /\ UNCHANGED runResult
    /\ stack' = <<UsernameLoop(cResult)>>
    /\ cPc' = "idle"
    /\ cMax' = 0
    /\ cPage' = 1
    /\ allUsernames' = <<>>
    /\ pageUsernames' = <<>>
    /\ links' = 0
    /\ cResult' = <<>>
    /\ searched' = <<>>
    /\ linksSeen' = <<>>
    /\ namesSeen' = <<>>
    /\ lastVisit' = NoVisit
    /\ NoEmails
    /\ NoSave
    /\ denied' = FALSE
    /\ UNCHANGED <<mode, runs, hostPages, adds, searchErr, requests,
                   lastIndex, cookies, crawls>>

\* processGitHubUser(username) for the first username of the loop: the
\* calls of getContributorEmails and getUserRepositories and the "return
\* true" after them, above the loop with the usernames that follow
FirstUsername(loop) ==
    <<Call("user"), Call("userRepos"), Call("return true"),
      [loop EXCEPT !.names = Tail(loop.names)]>>

\* a loop over the usernames that does not move on to the next username
processGitHubUserAgain ==
    /\ HarvestFrame
    /\ Head(stack).op = "usernames"
    /\ Head(stack).names # <<>>
    /\ denied' = FALSE
    /\ NoEmails
    /\ stack' = <<Call("user"), Call("userRepos"), Call("return true"),
                  Head(stack)>> \o Tail(stack)

\* the first pass of "for (const username of githubUsernames)":
\* processGitHubUser(username) is getContributorEmails, getUserRepositories
\* and "return true" in a try block, whose catch has "return false"
processGitHubUser ==
    /\ HarvestFrame
    /\ Head(stack).op = "usernames"
    /\ Head(stack).names # <<>>
    /\ denied' = FALSE
    /\ NoEmails
    /\ stack' = FirstUsername(Head(stack)) \o Tail(stack)

\* processGitHubUser returns to the loop, which goes on without waiting for
\* anything: "if (success) successCount++", then processGitHubUser for the
\* next username, or after the last one
\* "return saveEmails('fullstack-developer-emails.json')"
processGitHubUserReturn ==
    /\ stage = "run"
    /\ stack # <<>>
    /\ Head(stack).op \in {"return true", "return false"}
    /\ denied' = FALSE
    /\ NoEmails
    /\ UNCHANGED <<mode, runs, hostPages, adds, searchErr, requests,
                   crawlVars, crawlLog>>
    /\ LET success == Head(stack).op = "return true"
           loop == [stack[2] EXCEPT !.left = IF success THEN @ + 1 ELSE @]
       IN  IF loop.names # <<>>
           THEN /\ stack' = FirstUsername(loop) \o Tail(Tail(stack))
                /\ NoSave
                /\ UNCHANGED <<stage, runResult>>
           ELSE /\ saveEmails(UpworkFile)
                /\ stack' = Tail(Tail(stack))
                /\ stage' = "ended"
                /\ runResult' = files'[UpworkFile].data

\* getUserRepositories without its try block: a failed list request is
\* thrown to processGitHubUser, whose catch returns false
getUserRepositoriesThrows ==
    /\ HarvestFrame
    /\ Head(stack).op = "userRepos"
    /\ NoEmails
    /\ \E n \in 0..MaxUserRepos, forbidden \in Forbidden :
          /\ forbidden => n = 0
          /\ Asked(forbidden)
          /\ stack' = IF forbidden
                      THEN <<Call("return false")>> \o Tail(Tail(stack))
                      ELSE (IF n = 0 THEN <<>> ELSE <<Loop("userRepo", n)>>)
                           \o Tail(stack)

\* getUserRepositories: the list request
getUserRepositories ==
    /\ HarvestFrame
    /\ Head(stack).op = "userRepos"
    /\ NoEmails
    /\ \E n \in 0..MaxUserRepos, forbidden \in Forbidden :
          /\ forbidden => n = 0
          /\ Asked(forbidden)
          /\ stack' = (IF n = 0 THEN <<>> ELSE <<Loop("userRepo", n)>>)
                      \o Tail(stack)

\* one pass of "for (const repo of repos)"
UserRepoLoop ==
    /\ HarvestFrame
    /\ Head(stack).op = "userRepo"
    /\ denied' = FALSE
    /\ NoEmails
    /\ stack' = RepositoryCalls \o Passed(Head(stack)) \o Tail(stack)

\* the loop over no usernames:
\* return saveEmails('fullstack-developer-emails.json')
SaveUpworkEmails ==
    /\ stage = "run"
    /\ stack # <<>>
    /\ Head(stack).op = "usernames"
    /\ Head(stack).names = <<>>
    /\ saveEmails(UpworkFile)
    /\ stack' = Tail(stack)
    /\ stage' = "ended"
    /\ runResult' = files'[UpworkFile].data
    /\ NoEmails
    /\ denied' = FALSE
    /\ UNCHANGED <<mode, runs, hostPages, adds, searchErr, requests,
                   crawlVars, crawlLog>>

\* ------------------------------------------------------------------------
\* puppeteer-scraper.js: the pattern extractors of the browser pipeline

\* (?:\/[a-zA-Z0-9_-]+)* from position e on: the position after the last
\* path segment taken (e itself when no segment follows)
SegmentsEnd[text \in STRING, e \in Int] ==
    IF e >= 1 /\ e < Len(text) /\ Ch(text, e) = "/"
       /\ Ch(text, e + 1) \in UserChars
    THEN SegmentsEnd[text, RunEnd[text, e + 1, UserChars]]
    ELSE e

\* extractGitHubUrls: the loop over exec of the function's own global regex,
\* each search starting where the previous match ended; match[0] is pushed
GitHubUrlsFrom[text \in STRING, pos \in Int] ==
    LET Upto(p, e) == <<SubSeq(text, p, e - 1)>> \o GitHubUrlsFrom[text, e]
        Among(starts) ==
            IF starts = {} THEN <<>>
            ELSE Upto(MinOf(starts),
                      SegmentsEnd[text, UrlMatchEnd[text, MinOf(starts)]])
    IN Among({p \in pos..Len(text) : UrlMatchEnd[text, p] # 0})

extractGitHubUrls(text) == GitHubUrlsFrom[text, 1]

\* /github\.com\/([a-zA-Z0-9_-]+)/i at position pos: the position after
\* "github.com/" (g) and after the group (e), or 0
ProfileGroupAt[url \in STRING, pos \in Int] ==
    AfterLit[url, pos, "github.com/", "GITHUB.COM/"]
ProfileMatchEnd[url \in STRING, pos \in Int] ==
    GroupEnd[ProfileGroupAt[url, pos],
             RunEnd[url, ProfileGroupAt[url, pos], UserChars]]

\* `https://github.com/${match[1]}` for the group from g to e
ProfileUrlOf[url \in STRING, g \in Int, e \in Int] ==
    "https://github.com/" \o SubSeq(url, g, e - 1)

\* getGitHubProfileUrl: url.match of a regex without the g flag gives the
\* leftmost match; without a match the url is returned as it is
ProfileUrlAmong[url \in STRING, starts \in SUBSET Int] ==
    IF starts = {} THEN url
    ELSE ProfileUrlOf[url, ProfileGroupAt[url, MinOf(starts)],
                      ProfileMatchEnd[url, MinOf(starts)]]

getGitHubProfileUrl(url) ==
    ProfileUrlAmong[url, {p \in 1..Len(url) : ProfileMatchEnd[url, p] # 0}]

\* the content of marketplace profile pages (page.content())
BrowserPages ==
    {"<a href=\"https://github.com/alice/shop/issues\">shop</a>",
     "GitHub: https://www.github.com/bob and HTTPS://GITHUB.COM/Alice/",
     "No code host account"}

\* urls.forEach(url => githubUrls.add(getGitHubProfileUrl(url))) finds these
\* in a page, computed once for every page
PageUrls ==
    [c \in BrowserPages |->
        [i \in DOMAIN extractGitHubUrls(c) |->
            getGitHubProfileUrl(extractGitHubUrls(c)[i])]]

\* the mailto links of a code-host profile page, href.replace('mailto:', '')
ProfileMailtos == {<<>>} \cup {<<e>> : e \in EmailPool}

\* the repositories a profile lists, in the order of the page
RepoNames == <<"app", "lib", "site", "docs">>

\* links.slice(0, 3)
RepoLimit == 3

\* the hrefs of '#user-repositories-list h3 a' for a listing of n
\* repositories, cut to the first three
RepoLinks(githubUrl, n) ==
    [k \in 1..(IF n < RepoLimit THEN n ELSE RepoLimit) |->
        githubUrl \o "/" \o RepoNames[k]]

\* { email, source } for each of es
Records(es, source) ==
    [i \in DOMAIN es |-> [email |-> es[i], source |-> source]]

\* emailData.push(...emails)
PushAll(data, records) == data \o records

\* ------------------------------------------------------------------------
\* puppeteer-scraper.js: main, scrapeUpworkProfiles, scrapeGitHubProfile

\* the documents the marketplace tab can show: nothing yet, a page of the
\* search results, a freelancer's profile
NoPage == [kind |-> "none", page |-> 0]
SearchResults(n) == [kind |-> "search", page |-> n]
ProfilePage == [kind |-> "profile", page |-> 0]

\* the numbers of '.freelancer-tile-name a' links the document can show: a
\* search page of the marketplace shows 1..MaxTiles, a search page beyond
\* the last one and any other document show none
TilesOf(doc) ==
    IF doc.kind = "search" /\ doc.page <= marketPages THEN 1..MaxTiles
    ELSE {0}

\* whether the document can show an enabled button[aria-label="Next"]: a
\* search page does unless it is the last one; a profile may have a Next
\* control of its own (a portfolio pager)
NextControlOf(doc) ==
    CASE doc.kind = "search" -> {doc.page < marketPages}
      [] doc.kind = "profile" -> BOOLEAN
      [] OTHER -> {FALSE}

\* scrapeUpworkProfiles returns Array.from(githubUrls) to main
ReturnUrls ==
    /\ bPc' = "github"
    /\ urlQueue' = githubUrls

\* main(maxPages): the browser is launched and scrapeUpworkProfiles creates
\* its page and opens the search; a launch that fails rejects main, a page
\* that cannot be opened makes scrapeUpworkProfiles return what it has
main ==
    /\ bPc = "start"
    /\ \E maxPages \in 0..MaxBrowserPages,
          outcome \in {"ok", "nopage", "nolaunch"} :
          /\ bMaxPages' = maxPages
          /\ bPc' = CASE outcome = "ok" -> "page"
                      [] outcome = "nopage" -> "github"
                      [] outcome = "nolaunch" -> "done"
          /\ location' = IF outcome = "ok" THEN SearchResults(1) ELSE NoPage
          /\ bThrown' = (outcome # "ok")
    /\ githubUrls' = <<>>
    /\ urlQueue' = <<>>
    /\ currentPage' = 1
    /\ UNCHANGED <<profileLinks, emailData, processedGithubUrls,
                   profileEmails, repoLinks, repoEmails, browserFile,
                   foundRecords, marketPages, tilesSeen>>

\* the head of the for loop over the search pages and the profile links read
\* from the document the tab shows (thrown: evaluate throws and the function
\* returns what it has)
UpworkPage ==
    /\ bPc = "page"
    /\ IF currentPage <= bMaxPages
       THEN \E thrown \in BOOLEAN, n \in TilesOf(location) :
               IF thrown
               THEN /\ ReturnUrls
                    /\ bThrown' = TRUE
                    /\ UNCHANGED <<profileLinks, tilesSeen>>
               ELSE /\ bPc' = "profiles"
                    /\ profileLinks' = n
                    /\ tilesSeen' = Append(tilesSeen,
                                        [from |-> location, links |-> n])
                    /\ UNCHANGED <<urlQueue, bThrown>>
       ELSE /\ ReturnUrls
            /\ UNCHANGED <<profileLinks, tilesSeen, bThrown>>
    /\ UNCHANGED <<bMaxPages, currentPage, githubUrls, emailData,
                   processedGithubUrls, profileEmails, repoLinks, repoEmails,
                   browserFile, foundRecords, marketPages, location>>

\* one pass of "for (const profileUrl of profileLinks)": page.goto takes the
\* tab to the profile and the page content is read (Null: the navigation
\* throws, with the tab where it was or at the profile, and the pass is
\* given up)
VisitUpworkProfile ==
    /\ bPc = "profiles"
    /\ profileLinks > 0
    /\ profileLinks' = profileLinks - 1
    /\ \E content \in BrowserPages \cup {Null} :
          /\ githubUrls' = IF content = Null THEN githubUrls
                           ELSE SetAddAll(githubUrls, PageUrls[content])
          /\ bThrown' = (bThrown \/ content = Null)
          /\ location' \in IF content = Null THEN {location, ProfilePage}
                           ELSE {ProfilePage}
    /\ UNCHANGED <<bPc, bMaxPages, currentPage, urlQueue, emailData,
                   processedGithubUrls, profileEmails, repoLinks, repoEmails,
                   browserFile, foundRecords, marketPages, tilesSeen>>

\* after the profiles of a page: before the last pass the Next control is
\* looked for in the document the tab shows; without one the loop is left.
\* The click on a search page leads to the next search page; on a profile
\* it either leads nowhere, so that waitForNavigation throws and the
\* function returns what it has, or stays within the profile.
NextUpworkPage ==
    /\ bPc = "profiles"
    /\ profileLinks = 0
    /\ IF currentPage < bMaxPages
       THEN \E hasNextPage \in NextControlOf(location), thrown \in BOOLEAN :
               IF ~hasNextPage
               THEN /\ ~thrown
                    /\ ReturnUrls
                    /\ UNCHANGED <<currentPage, location, bThrown>>
               ELSE IF location.kind = "search"
               THEN /\ ~thrown
                    /\ currentPage' = currentPage + 1
                    /\ bPc' = "page"
                    /\ location' = SearchResults(location.page + 1)
                    /\ UNCHANGED <<urlQueue, bThrown>>
               ELSE IF thrown
               THEN /\ ReturnUrls
                    /\ bThrown' = TRUE
                    /\ UNCHANGED <<currentPage, location>>
               ELSE /\ currentPage' = currentPage + 1
                    /\ bPc' = "page"
                    /\ UNCHANGED <<urlQueue, location, bThrown>>
       ELSE /\ currentPage' = currentPage + 1
            /\ bPc' = "page"
            /\ UNCHANGED <<urlQueue, location, bThrown>>
    /\ UNCHANGED <<bMaxPages, profileLinks, githubUrls, emailData,
                   processedGithubUrls, profileEmails, repoLinks, repoEmails,
                   browserFile, foundRecords, marketPages, tilesSeen>>

\* main's "for (const githubUrl of githubUrls)" calls scrapeGitHubProfile:
\* a URL already processed gives [], as does a profile page that cannot be
\* opened; otherwise the profile's mailto links and repository links are read
scrapeGitHubProfile ==
    /\ bPc = "github"
    /\ urlQueue # <<>>
    /\ processedGithubUrls' = processedGithubUrls \cup {Head(urlQueue)}
    /\ IF Head(urlQueue) \in processedGithubUrls
       THEN /\ urlQueue' = Tail(urlQueue)
            /\ UNCHANGED <<bPc, profileEmails, repoLinks, repoEmails>>
       ELSE \E opened \in BOOLEAN, mailtos \in ProfileMailtos,
               n \in 0..MaxListedRepos :
               IF opened
               THEN /\ bPc' = "repos"
                    /\ profileEmails' = mailtos
                    /\ repoLinks' = RepoLinks(Head(urlQueue), n)
                    /\ repoEmails' = <<>>
                    /\ UNCHANGED urlQueue
               ELSE /\ urlQueue' = Tail(urlQueue)
                    /\ UNCHANGED <<bPc, profileEmails, repoLinks, repoEmails>>
    /\ UNCHANGED <<bMaxPages, currentPage, profileLinks, githubUrls,
                   emailData, browserFile, foundRecords>>
    /\ UNCHANGED <<marketPages, location, tilesSeen, bThrown>>

\* one pass of "for (const repoUrl of repoLinks)": the README's text (Null:
\* no README link, or the pass throws and is given up)
VisitRepository ==
    /\ bPc = "repos"
    /\ repoLinks # <<>>
    /\ repoLinks' = Tail(repoLinks)
    /\ \E readme \in ReadmeTexts \cup {Null} :
          repoEmails' =
              IF readme = Null THEN repoEmails
              ELSE repoEmails \o Records(Filtered(ReadmeEmails[readme]),
                                         Head(repoLinks) \o " (README)")
    /\ UNCHANGED <<bPc, bMaxPages, currentPage, profileLinks, githubUrls,
                   urlQueue, emailData, processedGithubUrls, profileEmails,
                   browserFile, foundRecords>>
    /\ UNCHANGED <<marketPages, location, tilesSeen, bThrown>>

\* allEmails of the profile being scraped
allEmails ==
    Records(profileEmails, Head(urlQueue) \o " (Profile)") \o repoEmails

\* the records main is given are pushed to emailData
Collect(records) ==
    /\ emailData' = PushAll(emailData, records)
    /\ foundRecords' = foundRecords \o records

\* scrapeGitHubProfile returns (a page that cannot be closed gives []) and
\* main pushes what it returned
ReturnEmails ==
    /\ bPc = "repos"
    /\ repoLinks = <<>>
    /\ bPc' = "github"
    /\ urlQueue' = Tail(urlQueue)
    /\ \E closed \in BOOLEAN : Collect(IF closed THEN allEmails ELSE <<>>)
    /\ UNCHANGED <<bMaxPages, currentPage, profileLinks, githubUrls,
                   processedGithubUrls, profileEmails, repoLinks, repoEmails,
                   browserFile>>
    /\ UNCHANGED <<marketPages, location, tilesSeen, bThrown>>

\* fs.writeFileSync(outputPath, JSON.stringify(emailData, null, 2))
SaveResults ==
    /\ bPc = "github"
    /\ urlQueue = <<>>
    /\ bPc' = "done"
    /\ browserFile' = Written(emailData)
    /\ UNCHANGED <<bMaxPages, currentPage, profileLinks, githubUrls,
                   urlQueue, emailData, processedGithubUrls, profileEmails,
                   repoLinks, repoEmails, foundRecords>>
    /\ UNCHANGED <<marketPages, location, tilesSeen, bThrown>>

\* ------------------------------------------------------------------------
\* The URLs extractGitHubUsername is called with (its callers' inputs)

\* a URL as its parts: the scheme with "://" ("" when there is none), the
\* host as written, the host in its canonical lower-case form, and the path
\* with the query
Url(scheme, hostText, host, user, rest) ==
    [text |-> scheme \o hostText \o "/" \o user \o rest,
     scheme |-> scheme, host |-> host, user |-> user]

Schemes == {"http://", "https://", "hTTpS://"}
GitHubHosts ==
    {<<"github.com", "github.com">>, <<"GitHub.com", "github.com">>,
     <<"www.github.com", "www.github.com">>,
     <<"WWW.GITHUB.COM", "www.github.com">>}
OtherHosts ==
    {<<"gitlab.com", "gitlab.com">>, <<"gist.github.com", "gist.github.com">>,
     <<"github.com.evil.io", "github.com.evil.io">>,
     <<"notgithub.com", "notgithub.com">>}
UserNames == {"foo-bar", "Foo-1_x"}
Rests == {"", "/repo/issues/1", "?tab=repositories"}

\* a page of another site that carries a code-host URL in its query or path
CarrierRests == {"?u=https://github.com/foo", "/http://www.github.com/foo/"}

UrlPool ==
    {Url(s, h[1], h[2], u, r) :
        s \in Schemes \cup {""}, h \in GitHubHosts \cup OtherHosts,
        u \in UserNames \cup {""}, r \in Rests}
    \cup {Url("https://", "evil.com", "evil.com", "", r) : r \in CarrierRests}

\* the argument of a call: a URL's text, the empty string, or nothing
Arguments ==
    UrlPool \cup {[text |-> "", scheme |-> "", host |-> "", user |-> ""],
                  [text |-> Null, scheme |-> "", host |-> "", user |-> ""]}

\* the call with argument a gave r
Extracted(a, r) ==
    /\ argument' = a
    /\ returned' = r.result
    /\ entered' = lastIndex
    /\ lastIndex' = r.lastIndex

\* a call of the exported extractGitHubUsername
CallExtract ==
    /\ calls < MaxCalls
    /\ calls' = calls + 1
    /\ \E a \in Arguments :
          Extracted(a, extractGitHubUsername(a.text, lastIndex))
    /\ UNCHANGED <<cookies, cPc, cMax, cPage, allUsernames, pageUsernames,
                   links, cResult, crawls, crawlLog>>

\* ------------------------------------------------------------------------
\* The texts the email extraction is called with (README contents)

\* email-shaped strings (those of testEmailExtraction among them)
EmailShapes ==
    {"support@example.com", "dev.team@company.co.uk",
     "name+tag-123@sub.domain-name.com"}

\* what stands right before and right after an email in a text
Before == {"", " ", "<", "mailto:", "x", "7", ".", "-", "@"}
After == {"", " ", ">", ", ", "x", "7", ".", "-", "@"}

\* a text with the emails that were put in it, in order
Sample(text, emails) == [text |-> text, emails |-> emails]

\* texts without an email: plain text and malformed look-alikes
NoEmailTexts ==
    {"", "No contact here", "a@b@c", "Not an email: this@is@invalid",
     "user@localhost", "@example.com", "name@.com", "support@example.c"}

Samples ==
    {Sample(b \o e \o a, <<e>>) : b \in Before, e \in EmailShapes, a \in After}
    \cup {Sample("Contact us at " \o e \o " or " \o f \o " today", <<e, f>>) :
             e \in EmailShapes, f \in EmailShapes}
    \cup {Sample(t, <<>>) : t \in NoEmailTexts}

\* a call of extractEmails(text) (content.match(emailRegex) || [] in index.js)
CallExtractEmails ==
    /\ sampleCalls < MaxSampleCalls
    /\ sampleCalls' = sampleCalls + 1
    /\ \E s \in Samples :
          /\ sample' = s
          /\ matches' = extractEmails(s.text)

\* ------------------------------------------------------------------------
\* Specifications

\* a caller of the exported function
CallCrawl ==
    /\ cPc \in {"idle", "done"}
    /\ crawls < MaxCrawls
    /\ crawls' = crawls + 1
    /\ \E maxPages \in 0..MaxCeiling : BeginCrawl(maxPages)

\* upwork-scraper.js after it has been loaded
CrawlInit ==
    /\ lastIndex = 0
    /\ cookies \in BOOLEAN
    /\ cPc = "idle"
    /\ cMax = 0
    /\ cPage = 1
    /\ allUsernames = <<>>
    /\ pageUsernames = <<>>
    /\ links = 0
    /\ cResult = <<>>
    /\ crawls = 0
    /\ searched = <<>>
    /\ linksSeen = <<>>
    /\ namesSeen = <<>>
    /\ lastVisit = NoVisit

\* index.js after it has been loaded
PipeInit ==
    /\ emailSet = <<>>
    /\ files = [f \in {JsFile, UpworkFile} |-> NoFile]
    /\ stack = <<>>
    /\ mode = "none"
    /\ stage = "idle"
    /\ runResult = NoResult
    /\ runs = 0
    /\ added = {}
    /\ adds = 0
    /\ searchErr = 0
    /\ writes = 0
    /\ requests = <<>>
    /\ denied = FALSE

\* puppeteer-scraper.js after it has been loaded, before main runs
BrowserInit ==
    /\ bPc = "start"
    /\ bMaxPages = 0
    /\ currentPage = 1
    /\ profileLinks = 0
    /\ githubUrls = <<>>
    /\ urlQueue = <<>>
    /\ emailData = <<>>
    /\ processedGithubUrls = {}
    /\ profileEmails = <<>>
    /\ repoLinks = <<>>
    /\ repoEmails = <<>>
    /\ browserFile = NoFile
    /\ foundRecords = <<>>
    /\ location = NoPage
    /\ tilesSeen = <<>>
    /\ bThrown = FALSE

\* no call of extractGitHubUsername has been made
ExtractInit ==
    /\ argument = [text |-> Null, scheme |-> "", host |-> "", user |-> ""]
    /\ returned = Null
    /\ entered = 0
    /\ calls = 0

\* no text has been searched for emails
EmailInit ==
    /\ sample = [text |-> "", emails |-> <<>>]
    /\ matches = <<>>
    /\ sampleCalls = 0

\* no second call has been made
OverlapInit ==
    /\ second = "none"
    /\ secondAdded = {}

\* no pause has begun
NoTimer == [call |-> "none", delay |-> 0, phase |-> "idle"]

\* all modules loaded, nothing run
Loaded ==
    /\ OverlapInit
    /\ timer = NoTimer
    /\ CrawlInit
    /\ PipeInit
    /\ BrowserInit
    /\ ExtractInit
    /\ EmailInit

\* the marketplace crawl on its own, called through the module's export
InitCrawl ==
    /\ Loaded
    /\ hostPages = 0
    /\ marketPages = 0
    /\ argv = Null

NextCrawl ==
    \/ CallCrawl /\ UNCHANGED <<pipeVars, pipeLog, overlapVars, delayVars, browserVars, extractVars, emailVars>>
    \/ CrawlLoop /\ UNCHANGED <<pipeVars, pipeLog, overlapVars, delayVars, browserVars, extractVars, emailVars>>
    \/ SearchPage /\ UNCHANGED <<pipeVars, pipeLog, overlapVars, delayVars, browserVars, extractVars, emailVars>>
    \/ VisitProfile /\ UNCHANGED <<pipeVars, pipeLog, overlapVars, delayVars, browserVars, extractVars, emailVars>>
    \/ CrawlReturn /\ UNCHANGED <<pipeVars, pipeLog, overlapVars, delayVars, browserVars, extractVars, emailVars>>

SpecCrawl == InitCrawl /\ [][NextCrawl]_vars

\* The store of index.js used directly: emailSet.add, emailSet.clear and
\* saveEmails called in any order with any address
StoreAdd ==
    /\ adds < MaxAdds
    /\ adds' = adds + 1
    /\ \E email \in EmailPool : AddEmails(<<email>>)
    /\ NoSave
    /\ UNCHANGED <<stack, mode, stage, runResult, runs, hostPages, searchErr, requests,
                   denied>>

StoreClear ==
    /\ emailSet' = Cleared(emailSet)
    /\ added' = {}
    /\ adds' = 0
    /\ NoSave
    /\ UNCHANGED <<stack, mode, stage, runResult, runs, hostPages, searchErr, requests,
                   denied>>

StoreSave ==
    /\ writes < MaxSaves
    /\ \E filename \in {JsFile, UpworkFile} : saveEmails(filename)
    /\ NoEmails
    /\ UNCHANGED <<stack, mode, stage, runResult, runs, hostPages, adds, searchErr,
                   requests, denied>>

InitStore ==
    /\ Loaded
    /\ hostPages = 0
    /\ marketPages = 0
    /\ argv = Null

NextStore ==
    \/ StoreAdd /\ UNCHANGED <<crawlVars, crawlLog, otherVars>>
    \/ StoreClear /\ UNCHANGED <<crawlVars, crawlLog, otherVars>>
    \/ StoreSave /\ UNCHANGED <<crawlVars, crawlLog, otherVars>>

SpecStore == InitStore /\ [][NextStore]_vars

\* the two pipelines of index.js, on a code host whose search shows no
\* page, MaxResultPages pages or PageCap pages of repositories
Init ==
    /\ Loaded
    /\ hostPages \in {0, MaxResultPages, PageCap}
    /\ argv \in {Null} \cup ScriptArguments
    /\ marketPages = 0

Next ==
    \/ RunDirectly /\ UNCHANGED otherVars
    \/ argv = Null /\ searchJavaScriptDevelopers /\ UNCHANGED otherVars
    \/ SearchRepos /\ UNCHANGED otherVars
    \/ RepoLoop /\ UNCHANGED otherVars
    \/ PageEnd /\ UNCHANGED otherVars
    \/ checkReadmeForEmails /\ UNCHANGED otherVars
    \/ getContributors /\ UNCHANGED otherVars
    \/ ContributorLoop /\ UNCHANGED otherVars
    \/ getContributorEmails /\ UNCHANGED otherVars
    \/ getUserEvents /\ UNCHANGED otherVars
    \/ checkCommits /\ UNCHANGED otherVars
    \/ CommitLoop /\ UNCHANGED otherVars
    \/ argv = Null /\ findEmailsFromUpworkDevelopers /\ UNCHANGED otherVars
    \/ CrawlLoop /\ UNCHANGED <<pipeVars, pipeLog, overlapVars, delayVars, browserVars,
                               extractVars, emailVars>>
    \/ SearchPage /\ UNCHANGED <<pipeVars, pipeLog, overlapVars, delayVars, browserVars,
                               extractVars, emailVars>>
    \/ VisitProfile /\ UNCHANGED <<pipeVars, pipeLog, overlapVars, delayVars, browserVars,
                               extractVars, emailVars>>
    \/ CrawlReturn /\ UNCHANGED <<pipeVars, pipeLog, overlapVars, delayVars, browserVars,
                               extractVars, emailVars>>
    \/ HarvestUsernames /\ UNCHANGED otherVars
    \/ processGitHubUser /\ UNCHANGED otherVars
    \/ processGitHubUserReturn /\ UNCHANGED otherVars
    \/ getUserRepositories /\ UNCHANGED otherVars
    \/ UserRepoLoop /\ UNCHANGED otherVars
    \/ SaveUpworkEmails /\ UNCHANGED otherVars

Spec == Init /\ [][Next]_vars

\* the repository search alone: searchJavaScriptDevelopers called any number
\* of times, on a code host with up to MaxResultPages or with PageCap pages
\* that lists up to MaxListedCommits commits for a repository
InitSearch ==
    /\ Loaded
    /\ hostPages \in (0..MaxResultPages) \cup {PageCap}
    /\ argv = Null
    /\ marketPages = 0

NextSearch ==
    \/ searchJavaScriptDevelopers /\ UNCHANGED otherVars
    \/ SearchRepos /\ UNCHANGED otherVars
    \/ RepoLoop /\ UNCHANGED otherVars
    \/ PageEnd /\ UNCHANGED otherVars
    \/ checkReadmeForEmails /\ UNCHANGED otherVars
    \/ getContributors /\ UNCHANGED otherVars
    \/ ContributorLoop /\ UNCHANGED otherVars
    \/ getContributorEmails /\ UNCHANGED otherVars
    \/ getUserEvents /\ UNCHANGED otherVars
    \/ ListCommits(MaxListedCommits) /\ UNCHANGED otherVars
    \/ CommitLoop /\ UNCHANGED otherVars

SpecSearch == InitSearch /\ [][NextSearch]_vars

\* the marketplace pipeline alone: findEmailsFromUpworkDevelopers called any
\* number of times
InitUpwork ==
    /\ Loaded
    /\ hostPages = 0
    /\ argv = Null
    /\ marketPages = 0

NextUpwork ==
    \/ findEmailsFromUpworkDevelopers /\ UNCHANGED otherVars
    \/ CrawlLoop /\ UNCHANGED <<pipeVars, pipeLog, overlapVars, delayVars, browserVars,
                               extractVars, emailVars>>
    \/ SearchPage /\ UNCHANGED <<pipeVars, pipeLog, overlapVars, delayVars, browserVars,
                               extractVars, emailVars>>
    \/ VisitProfile /\ UNCHANGED <<pipeVars, pipeLog, overlapVars, delayVars, browserVars,
                               extractVars, emailVars>>
    \/ CrawlReturn /\ UNCHANGED <<pipeVars, pipeLog, overlapVars, delayVars, browserVars,
                               extractVars, emailVars>>
    \/ HarvestUsernames /\ UNCHANGED otherVars
    \/ processGitHubUser /\ UNCHANGED otherVars
    \/ processGitHubUserReturn /\ UNCHANGED otherVars
    \/ getContributorEmails /\ UNCHANGED otherVars
    \/ getUserEvents /\ UNCHANGED otherVars
    \/ getUserRepositories /\ UNCHANGED otherVars
    \/ UserRepoLoop /\ UNCHANGED otherVars
    \/ checkReadmeForEmails /\ UNCHANGED otherVars
    \/ getContributors /\ UNCHANGED otherVars
    \/ ContributorLoop /\ UNCHANGED otherVars
    \/ checkCommits /\ UNCHANGED otherVars
    \/ CommitLoop /\ UNCHANGED otherVars
    \/ SaveUpworkEmails /\ UNCHANGED otherVars

SpecUpwork == InitUpwork /\ [][NextUpwork]_vars

\* index.js called a second time while a run is waiting for an answer, as
\* the two routes of the Express example call processGitHubUser and
\* findEmailsFromUpworkDevelopers on every request they get. The second
\* call runs the same functions on the same emailSet; of its steps those
\* that reach the store or the output files are kept.
Entries ==
    {"findEmailsFromUpworkDevelopers", "searchJavaScriptDevelopers",
     "processGitHubUser"}

\* the second call made, up to its first await: the two pipelines clear
\* emailSet, processGitHubUser does not
SecondCall ==
    /\ stage \in {"crawl", "run"}
    /\ second = "none"
    /\ \E entry \in Entries :
          /\ second' = entry
          /\ emailSet' = IF entry = "processGitHubUser" THEN emailSet
                         ELSE Cleared(emailSet)
    /\ denied' = FALSE
    /\ NoSave
    /\ UNCHANGED <<secondAdded, added, stack, mode, stage, runResult, runs, hostPages,
                   adds, searchErr, requests>>

\* getContributorEmails of the second call: emailSet.add(user.email)
SecondCallAdds ==
    /\ second \in Entries
    /\ Cardinality(secondAdded) < MaxSecondAdds
    /\ \E email \in EmailPool :
          /\ emailSet' = SetAdd(emailSet, email)
          /\ secondAdded' = secondAdded \cup {email}
    /\ denied' = FALSE
    /\ NoSave
    /\ UNCHANGED <<second, added, stack, mode, stage, runResult, runs, hostPages, adds,
                   searchErr, requests>>

\* the second call returns; a pipeline has called saveEmails before
SecondCallReturns ==
    /\ second \in Entries
    /\ second' = "returned"
    /\ files' = CASE second = "findEmailsFromUpworkDevelopers" ->
                         [files EXCEPT ![UpworkFile] = Written(emailSet)]
                  [] second = "searchJavaScriptDevelopers" ->
                         [files EXCEPT ![JsFile] = Written(emailSet)]
                  [] OTHER -> files
    /\ denied' = FALSE
    /\ NoEmails
    /\ UNCHANGED <<secondAdded, writes, stack, mode, stage, runResult, runs, hostPages,
                   adds, searchErr, requests>>

\* the marketplace pipeline with a second call made during one of its runs
InitOverlap ==
    /\ Loaded
    /\ hostPages = 0
    /\ argv = Null
    /\ marketPages = 0

NextOverlap ==
    \/ NextUpwork
    \/ SecondCall /\ UNCHANGED <<crawlVars, crawlLog, browserVars,
                                extractVars, emailVars, delayVars, argv>>
    \/ SecondCallAdds /\ UNCHANGED <<crawlVars, crawlLog, browserVars,
                                    extractVars, emailVars, delayVars, argv>>
    \/ SecondCallReturns /\ UNCHANGED <<crawlVars, crawlLog, browserVars,
                                       extractVars, emailVars, delayVars, argv>>

SpecOverlap == InitOverlap /\ [][NextOverlap]_vars

\* ------------------------------------------------------------------------
\* upwork-scraper.js: the pause before each request to the marketplace

\* the numerators of the values of Math.random(), which are >= 0 and < 1
RandomDraws == 0..(RandomGrain - 1)

\* base + Math.floor(Math.random() * width), Math.random() = n / RandomGrain
RandomDelay(base, width, n) == base + ((n * width) \div RandomGrain)

\* searchUpworkProfiles: 3000 + Math.floor(Math.random() * 4000)
SearchDelay(n) == RandomDelay(3000, 4000, n)

\* scrapeUpworkProfile: 2000 + Math.floor(Math.random() * 3000)
ProfileDelay(n) == RandomDelay(2000, 3000, n)

\* searchUpworkProfiles up to "await sleep(delay)"
searchUpworkProfilesDelay ==
    /\ timer = NoTimer
    /\ \E n \in RandomDraws :
          timer' = [call |-> "searchUpworkProfiles", delay |-> SearchDelay(n),
                    phase |-> "sleeping"]

\* scrapeUpworkProfile up to "await sleep(delay)"
scrapeUpworkProfileDelay ==
    /\ timer = NoTimer
    /\ \E n \in RandomDraws :
          timer' = [call |-> "scrapeUpworkProfile", delay |-> ProfileDelay(n),
                    phase |-> "sleeping"]

\* sleep(ms): the timeout set for ms milliseconds fires
sleep ==
    /\ timer.phase = "sleeping"
    /\ timer' = [timer EXCEPT !.phase = "elapsed"]

\* "await axios.get(url, ...)" after the pause; the call goes on to its
\* return, and the next call draws its own delay
axiosGet ==
    /\ timer.phase = "elapsed"
    /\ timer.call = "searchUpworkProfiles" => cookies
    /\ timer' = NoTimer

\* searchUpworkProfiles after the pause, without upwork-cookies.json:
\* require throws and the call returns without a request
requireCookiesThrows ==
    /\ timer.phase = "elapsed"
    /\ timer.call = "searchUpworkProfiles"
    /\ ~cookies
    /\ timer' = NoTimer

\* the pauses and requests of the marketplace scraper alone
InitDelay ==
    /\ Loaded
    /\ hostPages = 0
    /\ argv = Null
    /\ marketPages = 0

NextDelay ==
    \/ searchUpworkProfilesDelay
          /\ UNCHANGED <<crawlVars, crawlLog, pipeVars, pipeLog, browserVars,
                         extractVars, emailVars, overlapVars>>
    \/ scrapeUpworkProfileDelay
          /\ UNCHANGED <<crawlVars, crawlLog, pipeVars, pipeLog, browserVars,
                         extractVars, emailVars, overlapVars>>
    \/ sleep
          /\ UNCHANGED <<crawlVars, crawlLog, pipeVars, pipeLog, browserVars,
                         extractVars, emailVars, overlapVars>>
    \/ axiosGet
          /\ UNCHANGED <<crawlVars, crawlLog, pipeVars, pipeLog, browserVars,
                         extractVars, emailVars, overlapVars>>
    \/ requireCookiesThrows
          /\ UNCHANGED <<crawlVars, crawlLog, pipeVars, pipeLog, browserVars,
                         extractVars, emailVars, overlapVars>>

SpecDelay == InitDelay /\ [][NextDelay]_vars

\* the browser pipeline: puppeteer-scraper.js run as a script
InitBrowser ==
    /\ Loaded
    /\ hostPages = 0
    /\ marketPages \in 0..MaxMarketPages
    /\ argv = Null

NextBrowser ==
    \/ main /\ UNCHANGED <<crawlVars, crawlLog, pipeVars, pipeLog, overlapVars, delayVars, extractVars,
                       emailVars>>
    \/ UpworkPage
          /\ UNCHANGED <<crawlVars, crawlLog, pipeVars, pipeLog, overlapVars, delayVars, extractVars,
                       emailVars>>
    \/ VisitUpworkProfile
          /\ UNCHANGED <<crawlVars, crawlLog, pipeVars, pipeLog, overlapVars, delayVars, extractVars,
                       emailVars>>
    \/ NextUpworkPage
          /\ UNCHANGED <<crawlVars, crawlLog, pipeVars, pipeLog, overlapVars, delayVars, extractVars,
                       emailVars>>
    \/ scrapeGitHubProfile
          /\ UNCHANGED <<crawlVars, crawlLog, pipeVars, pipeLog, overlapVars, delayVars, extractVars,
                       emailVars>>
    \/ VisitRepository
          /\ UNCHANGED <<crawlVars, crawlLog, pipeVars, pipeLog, overlapVars, delayVars, extractVars,
                       emailVars>>
    \/ ReturnEmails
          /\ UNCHANGED <<crawlVars, crawlLog, pipeVars, pipeLog, overlapVars, delayVars, extractVars,
                       emailVars>>
    \/ SaveResults
          /\ UNCHANGED <<crawlVars, crawlLog, pipeVars, pipeLog, overlapVars, delayVars, extractVars,
                       emailVars>>

SpecBrowser == InitBrowser /\ [][NextBrowser]_vars

\* extractGitHubUsername called through the module's export
InitExtract ==
    /\ Loaded
    /\ ~cookies
    /\ hostPages = 0
    /\ marketPages = 0
    /\ argv = Null

NextExtract ==
    CallExtract /\ UNCHANGED <<pipeVars, pipeLog, overlapVars, delayVars, browserVars, emailVars>>

SpecExtract == InitExtract /\ [][NextExtract]_vars

\* the email extraction called on its own
InitEmails ==
    /\ Loaded
    /\ hostPages = 0
    /\ marketPages = 0
    /\ argv = Null

NextEmails ==
    CallExtractEmails
        /\ UNCHANGED <<crawlVars, crawlLog, pipeVars, pipeLog, overlapVars, delayVars, browserVars,
                       extractVars>>

SpecEmails == InitEmails /\ [][NextEmails]_vars

\* ------------------------------------------------------------------------
\* Properties of the marketplace crawl

\* the crawl was called with a ceiling that allows two pages, the search of
\* page 1 returned at least one username and page 2 showed no profile link
C6_Case ==
    /\ cPc # "idle"
    /\ cMax # 1
    /\ Len(namesSeen) >= 1
    /\ namesSeen[1] # <<>>
    /\ Len(linksSeen) >= 2
    /\ linksSeen[2] = 0

\* C6: in a crawl with ceiling 0 or >= 2 where page 1 yields at least one
\* username and page 2 yields zero profile links, exactly the pages 1 and 2
\* are requested (never a page 3), and the array the crawl returns holds the
\* usernames of page 1, each once.
C6_StopsAfterEmptyPage2 ==
    C6_Case =>
        /\ searched = <<1, 2>>
        /\ cPc \in {"return", "done"}
        /\ cPc = "done" =>
              /\ Range(cResult) = Range(namesSeen[1])
              /\ Cardinality(Range(cResult)) = Len(cResult)

C6_Witness ==
    /\ C6_Case
    /\ cPc = "done"
    /\ searched = <<1, 2>>
    /\ cResult # <<>>
    /\ Len(namesSeen[1]) > Len(cResult)

\* C7: a crawl ends only when a search page yielded zero profile links (a
\* failed fetch counting as such) or the page ceiling is reached; a page
\* with at least one profile link never ends it below the ceiling.
C7_EndsOnlyOnNoLinksOrCeiling ==
    cPc \in {"return", "done"} =>
        \/ /\ linksSeen # <<>>
           /\ linksSeen[Len(linksSeen)] <= 0
        \/ /\ cMax > 0
           /\ cPage > cMax

\* C8: the page counter starts at 1 and goes up by 1 per requested page;
\* with ceiling k > 0 no page above k is requested and the crawl comes to
\* its end after at most k page requests (a crawl that is not over can
\* always take its next step); with ceiling 0 it ends only when a search
\* returned zero usernames.
C8_PagesCountedAndCrawlEnds ==
    /\ \A i \in 1..Len(searched) : searched[i] = i
    /\ cMax > 0 => Len(searched) <= cMax
    /\ cPc \in {"idle", "done"} \/ ENABLED NextCrawl
    /\ (cMax = 0 /\ cPc \in {"return", "done"}) =>
          /\ namesSeen # <<>>
          /\ namesSeen[Len(namesSeen)] = <<>>

\* C9: the username extraction of scrapeUpworkProfile for the mock profile
\* comes to its end and gives exactly the set {mockuser, mockuser2}.
C9_MockProfileUsernames ==
    lastVisit.profile = "mock" =>
        /\ ~lastVisit.hung
        /\ Range(lastVisit.usernames) = {"mockuser", "mockuser2"}

\* the positions in s, in increasing order
Ascending(s) == \A i \in 1..Len(s), j \in 1..Len(s) : i < j => s[i] < s[j]

\* C18: for every profile text the scan for code-host URLs in
\* scrapeUpworkProfile comes to its end, and its loop body has run for each
\* URL occurrence of the text exactly once, from left to right.
C18_TextScanTerminates ==
    lastVisit.profile \in ProfileNames =>
        /\ ~lastVisit.hung
        /\ Ascending(lastVisit.visited)
        /\ Range(lastVisit.visited) = UrlStarts[fullText(Profiles[lastVisit.profile])]

\* C19: the usernames scrapeUpworkProfile returns for a profile are those
\* its scan gives with the regex at match position 0, whatever the regex
\* was used for before the visit.
C19_ResultDependsOnProfileOnly ==
    lastVisit.profile \in ProfileNames =>
        /\ lastVisit.hung = ScrapeResult[lastVisit.profile, 0].hung
        /\ lastVisit.usernames = ScrapeResult[lastVisit.profile, 0].usernames

\* C24: a profile visit that fails gives no username and is otherwise like
\* the visit of a profile without code-host URLs: the links of the page that
\* are left are still visited with the usernames of the page kept, after the
\* last link the page's usernames are returned to the crawl, and the visit
\* leaves behind what a visit of the profile "plain" would leave behind.
C24_FailedProfileAsEmpty ==
    [][(cPc = "profiles" /\ links > 0 /\ lastVisit'.profile = "failed") =>
         /\ lastVisit'.usernames = <<>>
         /\ links > 1 => /\ cPc' = "profiles"
                         /\ links' = links - 1
                         /\ pageUsernames' = pageUsernames
         /\ links = 1 => namesSeen' = Append(namesSeen, pageUsernames)
         /\ lastIndex' = ScrapeResult["plain", lastIndex].lastIndex]_vars

\* the usernames of the pages searched so far, each once, in the order found
Gathered ==
    LET G[k \in 0..Len(namesSeen)] ==
            IF k = 0 THEN <<>> ELSE SetAddAll(G[k - 1], namesSeen[k])
    IN G[Len(namesSeen)]

\* C25: a search page whose request fails (or is not made) ends the crawl
\* as a page without profile links does: it is the last page asked for, it
\* gives no username, and the crawl returns the usernames of the pages
\* before it.  Nothing is asked for twice within a crawl: the pages asked
\* for are 1, 2, 3, ... and a profile visit that fails uses up its link.
C25_FailedPageEndsCrawl ==
    /\ [](/\ \A i \in 1..Len(searched) : searched[i] = i
          /\ \A i \in 1..Len(linksSeen) :
                linksSeen[i] <= 0 =>
                    /\ i = Len(searched)
                    /\ cPc \in {"return", "done"}
                    /\ namesSeen[i] = <<>>
                    /\ allUsernames = Gathered
          /\ cPc = "done" => cResult = Gathered)
    /\ [][(cPc = "profiles" /\ lastVisit'.profile = "failed") =>
             links' = links - 1]_vars

C25_Witness ==
    /\ cPc = "done"
    /\ Len(linksSeen) = 2
    /\ linksSeen[2] = RequestFailed
    /\ cResult # <<>>
    /\ cResult = namesSeen[1]

\* the delays a call can draw
SearchDelays == {SearchDelay(n) : n \in RandomDraws}
ProfileDelays == {ProfileDelay(n) : n \in RandomDraws}

\* every pause lies in its window, and no request is made before the pause
\* drawn for it has elapsed
DelayedRequests ==
    /\ [](/\ timer.call = "searchUpworkProfiles" =>
                (timer.delay >= 3000 /\ timer.delay <= 7000)
          /\ timer.call = "scrapeUpworkProfile" =>
                (timer.delay >= 2000 /\ timer.delay <= 5000))
    /\ [][timer.phase = "sleeping" =>
            timer' = [timer EXCEPT !.phase = "elapsed"]]_vars
    /\ [][timer' = NoTimer => timer.phase = "elapsed"]_vars

\* C28: every request for a search page of the marketplace is preceded by
\* a freshly drawn whole delay d with 3000 <= d <= 7000 ms, every request
\* for a profile by one with 2000 <= d <= 5000 ms, no request is made before
\* its delay has elapsed, and every value of each closed window can be
\* drawn.
C28_DelayWindows ==
    /\ DelayedRequests
    /\ [](/\ SearchDelays = 3000..7000
          /\ ProfileDelays = 2000..5000)

\* C13: a call of searchUpworkProfiles issues its search-page request
\* whether or not the cookie file is there, so that a crawl without cookies
\* visits profiles as one with cookies does.
C13_SearchesWithoutCookies ==
    \A i \in 1..Len(linksSeen) : linksSeen[i] # NoRequest

\* ------------------------------------------------------------------------
\* Properties of the pipelines of index.js

\* the output file of the pipeline that runs
OutFile == IF mode = "upwork" THEN UpworkFile ELSE JsFile

\* C1: no address containing the no-reply domain is ever in the store or in
\* a written output file, whichever path it came from (README, profile
\* email, push event, commit author or committer).
C1_NoReplyNeverStored ==
    /\ \A i \in 1..Len(emailSet) : ~Includes(emailSet[i], NoReplyDomain)
    /\ \A f \in DOMAIN files : \A i \in 1..Len(files[f].data) :
          ~Includes(files[f].data[i], NoReplyDomain)

\* C2: a repository-search run whose search request fails, with whatever
\* status, after n >= 0 addresses were collected has written the output
\* file, and the file holds exactly those n addresses.
C2_SearchFailureStillSaves ==
    (mode = "js" /\ stage = "ended" /\ searchErr # 0) =>
        /\ writes >= 1
        /\ files[JsFile] = Written(emailSet)

\* C3: both entry points empty the store first, so the store only holds
\* addresses the run in progress has added; a run that ends normally or
\* by page exhaustion has written its output file, and a file a run has
\* written holds the store's full contents and no address that only an
\* earlier run of the process found.
C3_FreshStoreFullArtifact ==
    /\ Range(emailSet) \subseteq added
    /\ (stage = "ended" /\ searchErr = 0) => writes >= 1
    /\ (stage = "ended" /\ writes >= 1) =>
          /\ files[OutFile] = Written(emailSet)
          /\ Range(files[OutFile].data) \subseteq added

C3_Witness ==
    /\ runs = 2
    /\ mode = "upwork"
    /\ stage = "ended"
    /\ writes = 1
    /\ emailSet # <<>>
    /\ files[UpworkFile] = Written(emailSet)
    /\ files[JsFile].exists
    /\ Range(files[JsFile].data) \ added # {}

\* C4: after any sequence of insertions the store holds each distinct
\* address given to add exactly once (equal strings only; letter case
\* distinguishes): adding an address already present leaves the size as it
\* is, the size is the number of distinct addresses added, and no written
\* file holds an address twice.
C4_StoreHoldsEachEmailOnce ==
    /\ Range(emailSet) = added
    /\ Len(emailSet) = Cardinality(added)
    /\ Len(emailSet) <= adds
    /\ \A f \in DOMAIN files :
          Len(files[f].data) = Cardinality(Range(files[f].data))

C4_Witness ==
    /\ adds > Len(emailSet)
    /\ {"dev@example.com", "Dev@example.com"} \subseteq Range(emailSet)
    /\ files[JsFile] = Written(emailSet)


AskedMode == IF argv = "--mode=upwork" THEN "upwork" ELSE "js"
AskedFile == IF argv = "--mode=upwork" THEN UpworkFile ELSE JsFile

\* C21: a repository-search run ends before its pages are exhausted (a page
\* without repositories, or page 100) only when a search request failed on
\* the rate limit or on the credentials (403, 401); after any other failure
\* of a search request the run goes on.
C21_OnlyRateLimitEndsSearch ==
    (mode = "js" /\ stage = "ended" /\ requests # <<>>) =>
        \/ searchErr \in {401, 403}
        \/ requests[Len(requests)].answer = "empty"
        \/ /\ Len(requests) = PageCap
           /\ requests[Len(requests)].answer = "items"

\* C22: whatever the request for the detailed record of a commit yields, a
\* failure included, the loop of checkCommits goes on with the commits of
\* the list that are left.
C22_CommitFailureKeepsLoop ==
    [][(/\ stack # <<>>
        /\ Head(stack).op = "commit"
        /\ Head(stack).left > 1)
       => (/\ stack' # <<>>
           /\ Head(stack').op = "commit"
           /\ Head(stack').left = Head(stack).left - 1)]_vars

\* the pending work below the top frame is still pending after the step
RestPending ==
    /\ Len(stack') >= Len(stack) - 1
    /\ SubSeq(stack', Len(stack') - Len(stack) + 2, Len(stack')) = Tail(stack)

\* C23: the lookups are independent.  Whatever the profile request for a
\* user yields, a failure included, the events of that user are asked for
\* next; whatever the README, the contributors or the commit list request
\* for a repository yields, the other lookups of the repository that are
\* pending stay pending.
C23_LookupsIndependent ==
    [][stack # <<>> =>
         /\ Head(stack).op = "user" =>
               /\ stack' # <<>>
               /\ Head(stack').op = "events"
         /\ Head(stack).op \in {"readme", "contributors", "commits"} =>
               RestPending]_vars

\* no element of s occurs twice
NoDuplicates(s) == \A i \in 1..Len(s), j \in 1..Len(s) : s[i] = s[j] => i = j

\* C26: in marketplace mode the username path starts only when the crawl
\* has returned; the usernames to process are the usernames of the crawled
\* pages, each once, in the order they were first found; they are processed
\* one after the other in this order, each once, and no other username is.
C26_UsernamesProcessedOnceInOrder ==
    /\ [](/\ stage = "crawl" => stack = <<>>
          /\ \A k \in 1..Len(stack) :
                stack[k].op = "usernames" =>
                    /\ k = Len(stack)
                    /\ mode = "upwork"
                    /\ NoDuplicates(stack[k].names))
    /\ [][(stage = "crawl" /\ stage' = "run") =>
             /\ cPc = "done"
             /\ cResult = Gathered
             /\ stack' = <<UsernameLoop(Gathered)>>]_vars
    /\ [][(/\ stage = "run"
           /\ stage' = "run"
           /\ stack # <<>>
           /\ Head(stack).op \in {"usernames", "return true"}) =>
             LET loop == IF Head(stack).op = "usernames" THEN Head(stack)
                         ELSE stack[2]
             IN  /\ loop.names # <<>>
                 /\ Len(stack') = 4
                 /\ stack'[1] = Call("user")
                 /\ stack'[2] = Call("userRepos")
                 /\ stack'[3] = Call("return true")
                 /\ stack'[4].names = Tail(loop.names)]_vars

\* the first of two usernames is being processed, the second one waits
C26_Witness ==
    /\ stage = "run"
    /\ mode = "upwork"
    /\ Len(stack) = 4
    /\ Head(stack).op = "user"
    /\ stack[4].op = "usernames"
    /\ stack[4].names = <<"bob">>
    /\ emailSet = <<>>

\* C27: the store is used by one flow at a time: when a second call of
\* findEmailsFromUpworkDevelopers, searchJavaScriptDevelopers or
\* processGitHubUser is made while a run is waiting for an answer, the file
\* that run writes still holds exactly the addresses that run has given to
\* the store, none lost to the other call's clear() and none added by the
\* other call.
C27_ArtifactHoldsOwnEmails ==
    [][writes' = writes + 1 => Range(files'[OutFile].data) = added]_vars

\* C29: processGitHubUser never rejects and resolves to true for every
\* username, whichever of its requests to the code host fail: its catch,
\* which returns false, is never entered, an exception never reaches the
\* loop of findEmailsFromUpworkDevelopers, and so the success count that
\* loop reports is the number of usernames it has processed.
C29_ProcessGitHubUserReturnsTrue ==
    /\ [](\A k \in 1..Len(stack) :
            /\ stack[k].op # "return false"
            /\ stack[k].op = "return true" =>
                  (k < Len(stack) /\ stack[k + 1].op = "usernames")
            /\ stack[k].op = "usernames" =>
                  /\ k = 1 \/ stack[k - 1].op = "return true"
                  /\ stack[k].left =
                        stack[k].size - Len(stack[k].names)
                            - (IF k = 1 THEN 0 ELSE 1))
    /\ [][(mode = "upwork" /\ writes' = writes + 1 /\ stack # <<>>) =>
            LET loop == stack[Len(stack)]
                count == IF Len(stack) = 1 THEN loop.left ELSE loop.left + 1
            IN  /\ loop.op = "usernames"
                /\ loop.names = <<>>
                /\ count = loop.size]_vars

\* the list request of the second username's repositories has just been
\* answered 403: the call is about to return true, as the first one did
C29_Witness ==
    /\ denied
    /\ Len(stack) = 2
    /\ stack[1].op = "return true"
    /\ stack[2].left = 1
    /\ stack[2].size = 2
    /\ stack[2].names = <<>>

\* C30: in every run of either pipeline of index.js the output file is
\* written at most once; once it is written the run makes no request to the
\* code host and adds nothing to the store (nothing is pending, the store
\* is what the file holds), and the array the run returns is what the file
\* holds.
C30_ArtifactWrittenOnceAtEnd ==
    /\ writes <= 1
    /\ stage \in {"crawl", "run"} => (writes = 0 /\ runResult = NoResult)
    /\ (stage = "ended" /\ writes = 1) =>
          /\ stack = <<>>
          /\ emailSet = files[OutFile].data
          /\ runResult = files[OutFile].data

\* a repository search has saved after its last page and returned the two
\* addresses it found
C30_Witness ==
    /\ mode = "js"
    /\ stage = "ended"
    /\ writes = 1
    /\ searchErr = 0
    /\ Len(runResult) = 2
    /\ runResult = files[JsFile].data

\* C14: index.js run directly with --mode=upwork runs the marketplace
\* pipeline and writes fullstack-developer-emails.json; run without argument
\* it runs the repository search and writes javascript-developer-emails.json.
C14_ModeFromCommandLine ==
    (argv # Null /\ stage # "idle") =>
        /\ mode = AskedMode
        /\ (stage = "ended" /\ searchErr = 0) => files[AskedFile].exists

\* an element of a written array that is an {email, source} record with a
\* provenance, not a bare string
HasProvenance(v) == v \notin STRING /\ v.source # ""

\* the elements of a written array
Elements(file) == {file.data[i] : i \in 1..Len(file.data)}

\* C15: the file of the repository search is an array of bare email strings;
\* the file of the marketplace mode is an array of {email, source} records,
\* each with a non-empty source, for the pipeline of index.js as for the
\* browser pipeline.
C15_ArtifactShape ==
    /\ \A v \in Elements(files[JsFile]) : v \in STRING
    /\ \A v \in Elements(files[UpworkFile]) : HasProvenance(v)
    /\ \A v \in Elements(browserFile) : v.source # ""

\* ------------------------------------------------------------------------
\* Properties of the browser pipeline

\* the first record of foundRecords that carries the address
FirstFound(email) ==
    foundRecords[MinOf({i \in DOMAIN foundRecords :
                           foundRecords[i].email = email})]

UniqueByEmail(data) ==
    \A i, j \in DOMAIN data : data[i].email = data[j].email => i = j

\* C5: the records collected by the browser pipeline, in memory and as
\* written to the output file, never hold two entries with the same email,
\* and the entry kept for an email is the first one that was found for it.
C5_RecordsUniqueByEmail ==
    /\ UniqueByEmail(emailData)
    /\ UniqueByEmail(browserFile.data)
    /\ \A i \in DOMAIN emailData :
          emailData[i] = FirstFound(emailData[i].email)

\* the search pages the profile links were read from, pass by pass (0: the
\* tab did not show a search page)
PagesRead == [i \in 1..Len(tilesSeen) |-> tilesSeen[i].from.page]

\* C17: started with page count k >= 2 on a marketplace with more than k
\* result pages, each with profile links and an enabled Next control, the
\* browser scraper reads the profile links of the search pages 1 to k, in
\* this order, when no step of it fails.
C17_ReadsAllSearchPages ==
    (/\ bPc \in {"github", "repos", "done"}
     /\ bMaxPages >= 2
     /\ marketPages > bMaxPages
     /\ ~bThrown) => PagesRead = [i \in 1..bMaxPages |-> i]

\* C20: right after a request to the code host has been answered 403, in
\* either mode and whichever request it was, the run is over, so that no
\* request follows it, and the store has been written to the output file.
C20_ForbiddenStopsRun == denied => (stage = "ended" /\ writes >= 1)

\* ------------------------------------------------------------------------
\* Properties of extractGitHubUsername

\* C10: extractGitHubUsername returns <user> for http(s)://[www.]github.com/
\* <user> with or without anything after it, in any case of scheme and host,
\* and returns null for an absent or empty argument, for a URL without a
\* scheme, and for a URL whose host is not github.com.
C10_ExtractGitHubUsername ==
    calls > 0 =>
        /\ (/\ argument.scheme # ""
            /\ argument.host \in {"github.com", "www.github.com"}
            /\ argument.user # "") => returned = argument.user
        /\ argument.text \in {Null, ""} => returned = Null
        /\ argument.scheme = "" => returned = Null
        /\ argument.host \notin {"github.com", "www.github.com"}
              => returned = Null

\* what the call would return as the first call of the process
FirstCallResult == extractGitHubUsername(argument.text, 0).result

\* C11: what extractGitHubUsername returns depends on its argument only:
\* every call, at whatever match position earlier calls left the shared
\* regex, returns what it would return as the first call.
C11_ResultDependsOnArgumentOnly ==
    calls > 0 => returned = FirstCallResult

\* a second call made with the regex left after a match: one that finds a
\* user although the match position is beyond the user's place in the URL
C11_Witness ==
    /\ calls = 2
    /\ entered > Len(argument.text)
    /\ returned = argument.user
    /\ returned # ""

\* ------------------------------------------------------------------------
\* Properties of the email extraction

\* C12: for a text with email-shaped substrings in it, whatever stands right
\* before and after them (letters, digits, ".", "-", "@" included), the
\* extraction returns exactly those substrings, unmodified and in order; it
\* returns the empty list for a text without one, malformed look-alikes such
\* as a@b@c included.
C12_ExtractsEmbeddedEmails ==
    sampleCalls > 0 => matches = sample.emails

=============================================================================
